---- MODULE Spec2Model ----
(***************************************************************************)
(* Model of pkg/sql/sessioninit/cache.go: the versioned, memory-accounted  *)
(* cache of authentication info and default settings, its staleness        *)
(* protocol (clearCacheIfStale), the coalesced loads (loadCacheValue) and  *)
(* the two write-backs.                                                    *)
(*                                                                         *)
(* Every critical section of the Cache mutex is one step.  A call of       *)
(* GetAuthInfo / GetDefaultSettings is: the locked lookup, then DoChan,    *)
(* then (after the shared load has completed) the locked write-back.       *)
(***************************************************************************)
EXTENDS Bags, FiniteSets, Integers, Sequences, TLC

\* ------------------------------------------------------------------ bounds

\* Number of concurrent callers (goroutines running Get* calls).
NumProcs == 2
\* Table descriptor versions presented by callers are 1..MaxVersion.
MaxVersion == 2
\* Budget of the bound account when it is not zero.
MaxBudget == 400

Procs == 1..NumProcs
Versions == 1..MaxVersion
Budgets == {0, MaxBudget}

\* Normalized usernames of the callers and the database names they connect
\* to: one login in Spec, more of them in the other specifications.  "db7"
\* is the one database of the catalog, "nodb" names no database, "" is a
\* connection without a database.
Usernames == {"alice"}
DatabaseNames == {"db7"}
AllUsernames == {"alice", "bob"}
SettingsDatabaseNames == {"", "db7"}
AllDatabaseNames == {"", "nodb", "db7"}
\* Normalized usernames may contain '-' and digits, as the request keys do.
KeyUsernames == {"a", "a-1"}
AllKeyUsernames == {"", "a", "a-1", "a-1-1", "1", "1-1"}
\* The database descriptors of the catalog, by name.
DatabaseDescriptors == [db7 |-> [ID |-> 7]]
\* What a reader can find: the password hash of a user row ...
NilHash == "nil"
HashedPasswords == {"hash-of-password-one", "hash-of-password-two"}
\* ... and the settings list of a db_role_settings row.
SettingsLists == {<<"a=1">>}
\* Errors a reader can return; NoErr is Go's nil error.
NoErr == "nil"
ReaderErr == "reader error"
\* ctx.Err() of a caller whose context is done, and the error of a failed
\* descriptor lookup.
CtxErr == "context canceled"
CatalogErr == "descriptor lookup error"

\* ------------------------------------------------------------ constants

defaultDatabaseID == 0
defaultUsername == ""

\* unsafe.Sizeof of the structs on a 64-bit build.
sizeOfUsername == 16
sizeOfAuthInfo == 32
sizeOfTimestamp == 24
sizeOfSettingsCacheEntry == 48

\* ----------------------------------------------------------------- state

VARIABLES
    a,      \* the Cache: watermarks, maps, bound account, singleflight group
    pc,     \* pc[p]: where caller p is in its Get* call
    args,   \* args[p]: the arguments and table versions of p's current call
    ch,     \* ch[p]: the result channel DoChan handed to p
    ret,    \* ret[p]: what p's last call returned
    obs,    \* obs[p]: what p's current call observed (history only)
    running,\* bag of request keys whose load function is executing
    advanced, \* advanced[key]: a watermark the load of key depends on has
            \* been raised since the load started (history only)
    hi,     \* highest value each watermark has ever had (history only)
    track   \* whether advanced and hi are recorded in this behaviour

vars == <<a, pc, args, ch, ret, obs, running, advanced, hi, track>>

None == [none |-> TRUE]

\* AuthInfo: the hash is the part of the row the model keeps; read* record
\* the reader invocation that produced the value (history only).
AuthInfo(h, u, uv, rv) ==
    [HashedPassword |-> h, readUser |-> u,
     readUsersVersion |-> uv, readRoleOptionsVersion |-> rv]

ZeroAuthInfo == AuthInfo(NilHash, "", 0, 0)

SettingsCacheKey(id, u) == [DatabaseID |-> id, Username |-> u]

\* SettingsCacheEntry; readVersion is the db_role_settings version of the
\* reader invocation that produced it (history only).
SettingsCacheEntry(k, s, dv) ==
    [SettingsCacheKey |-> k, Settings |-> s, readVersion |-> dv]

EmptyMap == [x \in {} |-> None]

\* ------------------------------------------------------- memory account

\* mon.BoundAccount.Grow: reserve n bytes or fail.
Grow(acc, n) ==
    IF acc.used + n <= acc.budget
    THEN [ok |-> TRUE, acc |-> [acc EXCEPT !.used = @ + n]]
    ELSE [ok |-> FALSE, acc |-> acc]

\* mon.BoundAccount.Empty: release everything.
Empty(acc) == [acc EXCEPT !.used = 0]

\* The embedded syncutil.Mutex: Unlocked, or the caller that holds it.
Unlocked == 0

\* Mutant: a cache that starts at version 1 of every table, maps nil.
NewCache_WatermarksAtOne(budget) ==
    [Mutex |-> Unlocked,
     usersTableVersion |-> 1,
     roleOptionsTableVersion |-> 1,
     dbRoleSettingsTableVersion |-> 1,
     boundAccount |-> [used |-> 0, budget |-> budget],
     mapsMade |-> FALSE,
     authInfoCache |-> EmptyMap,
     settingsCache |-> EmptyMap,
     populateCacheGroup |-> EmptyMap]

\* NewCache: zero watermarks, nil maps (mapsMade: the two make() calls of
\* clearCacheIfStale have run), the given account, an empty group.
NewCache(budget) ==
    [Mutex |-> Unlocked,
     usersTableVersion |-> 0,
     roleOptionsTableVersion |-> 0,
     dbRoleSettingsTableVersion |-> 0,
     boundAccount |-> [used |-> 0, budget |-> budget],
     mapsMade |-> FALSE,
     authInfoCache |-> EmptyMap,
     settingsCache |-> EmptyMap,
     populateCacheGroup |-> EmptyMap]

\* ---------------------------------------------------- staleness protocol

\* Mutant: the clearing branch without the reset of the account.
clearCacheIfStale_KeepsAccount(c, usersTableVersion, roleOptionsTableVersion, dbRoleSettingsTableVersion) ==
    IF \/ c.usersTableVersion < usersTableVersion
       \/ c.roleOptionsTableVersion < roleOptionsTableVersion
       \/ c.dbRoleSettingsTableVersion < dbRoleSettingsTableVersion
    THEN [cache |-> [c EXCEPT
                       !.usersTableVersion = usersTableVersion,
                       !.roleOptionsTableVersion = roleOptionsTableVersion,
                       !.dbRoleSettingsTableVersion = dbRoleSettingsTableVersion,
                       !.mapsMade = TRUE,
                       !.authInfoCache = EmptyMap,
                       !.settingsCache = EmptyMap],
          isEligibleForCache |-> TRUE]
    ELSE IF \/ c.usersTableVersion > usersTableVersion
            \/ c.roleOptionsTableVersion > roleOptionsTableVersion
            \/ c.dbRoleSettingsTableVersion > dbRoleSettingsTableVersion
    THEN [cache |-> c, isEligibleForCache |-> FALSE]
    ELSE [cache |-> c, isEligibleForCache |-> TRUE]

clearCacheIfStale(c, usersTableVersion, roleOptionsTableVersion, dbRoleSettingsTableVersion) ==
    IF \/ c.usersTableVersion < usersTableVersion
       \/ c.roleOptionsTableVersion < roleOptionsTableVersion
       \/ c.dbRoleSettingsTableVersion < dbRoleSettingsTableVersion
    THEN [cache |-> [c EXCEPT
                       !.usersTableVersion = usersTableVersion,
                       !.roleOptionsTableVersion = roleOptionsTableVersion,
                       !.dbRoleSettingsTableVersion = dbRoleSettingsTableVersion,
                       !.mapsMade = TRUE,
                       !.authInfoCache = EmptyMap,
                       !.settingsCache = EmptyMap,
                       !.boundAccount = Empty(@)],
          isEligibleForCache |-> TRUE]
    ELSE IF \/ c.usersTableVersion > usersTableVersion
            \/ c.roleOptionsTableVersion > roleOptionsTableVersion
            \/ c.dbRoleSettingsTableVersion > dbRoleSettingsTableVersion
    THEN [cache |-> c, isEligibleForCache |-> FALSE]
    ELSE [cache |-> c, isEligibleForCache |-> TRUE]

\* Go's  m[k] = v  on a map.
MapPut(m, k, v) == [x \in DOMAIN m \cup {k} |-> IF x = k THEN v ELSE m[x]]

\* ------------------------------------------------------------- auth info

\* Mutant: a lookup that makes the staleness check and then reports a miss
\* whatever the map holds.
readAuthInfoFromCache_NeverFound(c, usersTableVersion, roleOptionsTableVersion, username) ==
    [cache |-> clearCacheIfStale(c, usersTableVersion, roleOptionsTableVersion, c.dbRoleSettingsTableVersion).cache, aInfo |-> ZeroAuthInfo, found |-> FALSE]

readAuthInfoFromCache(c, usersTableVersion, roleOptionsTableVersion, username) ==
    LET r == clearCacheIfStale(c, usersTableVersion, roleOptionsTableVersion,
                               c.dbRoleSettingsTableVersion)
    IN  IF ~r.isEligibleForCache
        THEN [cache |-> r.cache, aInfo |-> ZeroAuthInfo, found |-> FALSE]
        ELSE IF username \in DOMAIN r.cache.authInfoCache
        THEN [cache |-> r.cache, aInfo |-> r.cache.authInfoCache[username],
              found |-> TRUE]
        ELSE [cache |-> r.cache, aInfo |-> ZeroAuthInfo, found |-> FALSE]

\* aInfo.HashedPassword.Size(), 0 for a nil hash.
hpSize(aInfo) ==
    IF aInfo.HashedPassword = NilHash THEN 0 ELSE Len(aInfo.HashedPassword)

sizeOfEntry(aInfo, username) ==
    sizeOfUsername + Len(username) + sizeOfAuthInfo + hpSize(aInfo) + sizeOfTimestamp

\* Mutant: the write-back without the version recheck of line 247.
maybeWriteAuthInfoBackToCache_NoRecheck(c, usersTableVersion, roleOptionsTableVersion, aInfo, username) ==
    LET g == Grow(c.boundAccount, sizeOfEntry(aInfo, username))
    IN  IF ~g.ok
        THEN [cache |-> c, ok |-> TRUE, stored |-> FALSE, growFailed |-> TRUE]
        ELSE [cache |-> [c EXCEPT
                           !.boundAccount = g.acc,
                           !.authInfoCache = MapPut(@, username, aInfo)],
              ok |-> TRUE, stored |-> TRUE, growFailed |-> FALSE]

\* Mutant: the write-back that stores the entry although Grow failed.
maybeWriteAuthInfoBackToCache_StoreWithoutMemory(c, usersTableVersion, roleOptionsTableVersion, aInfo, username) ==
    IF \/ c.usersTableVersion # usersTableVersion
       \/ c.roleOptionsTableVersion # roleOptionsTableVersion
    THEN [cache |-> c, ok |-> FALSE, stored |-> FALSE, growFailed |-> FALSE]
    ELSE LET g == Grow(c.boundAccount, sizeOfEntry(aInfo, username))
         IN  [cache |-> [c EXCEPT
                           !.boundAccount = g.acc,
                           !.authInfoCache = MapPut(@, username, aInfo)],
              ok |-> TRUE, stored |-> TRUE, growFailed |-> ~g.ok]

\* Mutant: the write-back that drops the user's entry when Grow fails.
maybeWriteAuthInfoBackToCache_EvictsWhenFull(c, usersTableVersion, roleOptionsTableVersion, aInfo, username) ==
    IF \/ c.usersTableVersion # usersTableVersion
       \/ c.roleOptionsTableVersion # roleOptionsTableVersion
    THEN [cache |-> c, ok |-> FALSE, stored |-> FALSE, growFailed |-> FALSE]
    ELSE LET g == Grow(c.boundAccount, sizeOfEntry(aInfo, username))
         IN  IF ~g.ok
             THEN [cache |-> [c EXCEPT !.authInfoCache = [x \in DOMAIN @ \ {username} |-> @[x]]],
                   ok |-> TRUE, stored |-> FALSE, growFailed |-> TRUE]
             ELSE [cache |-> [c EXCEPT
                                !.boundAccount = g.acc,
                                !.authInfoCache = MapPut(@, username, aInfo)],
                   ok |-> TRUE, stored |-> TRUE, growFailed |-> FALSE]

\* The result: the cache afterwards, the bool the function returns, and
\* whether the map assignment of line 269 ran / Grow failed.
maybeWriteAuthInfoBackToCache(c, usersTableVersion, roleOptionsTableVersion, aInfo, username) ==
    IF \/ c.usersTableVersion # usersTableVersion
       \/ c.roleOptionsTableVersion # roleOptionsTableVersion
    THEN [cache |-> c, ok |-> FALSE, stored |-> FALSE, growFailed |-> FALSE]
    ELSE LET g == Grow(c.boundAccount, sizeOfEntry(aInfo, username))
         IN  IF ~g.ok
             THEN [cache |-> c, ok |-> TRUE, stored |-> FALSE, growFailed |-> TRUE]
             ELSE [cache |-> [c EXCEPT
                                !.boundAccount = g.acc,
                                !.authInfoCache = MapPut(@, username, aInfo)],
                   ok |-> TRUE, stored |-> TRUE, growFailed |-> FALSE]

\* Mutant: a request key without the table versions.
AuthInfoRequestKey_NoVersions(username, usersTableVersion, roleOptionsTableVersion) ==
    "authinfo-" \o username

\* fmt.Sprintf("authinfo-%s-%d-%d", ...)
AuthInfoRequestKey(username, usersTableVersion, roleOptionsTableVersion) ==
    "authinfo-" \o username \o "-" \o ToString(usersTableVersion)
        \o "-" \o ToString(roleOptionsTableVersion)

\* ------------------------------------------------------ default settings

\* Mutant: the keys in ascending precedence.
GenerateSettingsCacheKeys_DefaultsFirst(dbID, username) ==
    << SettingsCacheKey(defaultDatabaseID, defaultUsername),
       SettingsCacheKey(dbID, defaultUsername),
       SettingsCacheKey(defaultDatabaseID, username),
       SettingsCacheKey(dbID, username) >>

GenerateSettingsCacheKeys(databaseID, username) ==
    << SettingsCacheKey(databaseID, username),
       SettingsCacheKey(defaultDatabaseID, username),
       SettingsCacheKey(databaseID, defaultUsername),
       SettingsCacheKey(defaultDatabaseID, defaultUsername) >>

\* Mutant: the lookup that never resets foundAllDefaultSettings (line 399).
readDefaultSettingsFromCache_PartialHit(c, dbRoleSettingsTableVersion, username, databaseID) ==
    LET r == clearCacheIfStale(c, c.usersTableVersion, c.roleOptionsTableVersion,
                               dbRoleSettingsTableVersion)
        m == r.cache.settingsCache
        keys == GenerateSettingsCacheKeys(databaseID, username)
        missing == {i \in 1..Len(keys) : keys[i] \notin DOMAIN m}
        n == IF missing = {}
             THEN Len(keys)
             ELSE (CHOOSE i \in missing : \A j \in missing : i <= j) - 1
        sEntries == [i \in 1..n |->
                       SettingsCacheEntry(keys[i], m[keys[i]].Settings,
                                          m[keys[i]].readVersion)]
    IN  IF ~r.isEligibleForCache
        THEN [cache |-> r.cache, sEntries |-> << >>, found |-> FALSE]
        ELSE [cache |-> r.cache, sEntries |-> sEntries, found |-> TRUE]

\* The loop of lines 396-403: the entries of the keys found before the first
\* missing one, and whether none was missing.
readDefaultSettingsFromCache(c, dbRoleSettingsTableVersion, username, databaseID) ==
    LET r == clearCacheIfStale(c, c.usersTableVersion, c.roleOptionsTableVersion,
                               dbRoleSettingsTableVersion)
        m == r.cache.settingsCache
        keys == GenerateSettingsCacheKeys(databaseID, username)
        missing == {i \in 1..Len(keys) : keys[i] \notin DOMAIN m}
        n == IF missing = {}
             THEN Len(keys)
             ELSE (CHOOSE i \in missing : \A j \in missing : i <= j) - 1
        sEntries == [i \in 1..n |->
                       SettingsCacheEntry(keys[i], m[keys[i]].Settings,
                                          m[keys[i]].readVersion)]
    IN  IF ~r.isEligibleForCache
        THEN [cache |-> r.cache, sEntries |-> << >>, found |-> FALSE]
        ELSE [cache |-> r.cache, sEntries |-> sEntries, found |-> missing = {}]

\* The sum of len(s) over the strings of a settings list.
RECURSIVE SettingsLen(_)
SettingsLen(settings) ==
    IF settings = << >> THEN 0
    ELSE Len(Head(settings)) + SettingsLen(Tail(settings))

\* Mutant: the sizing loop without the check for a key already in the map.
RECURSIVE sizeOfSettings_ChargesPresentKeys(_, _, _)
sizeOfSettings_ChargesPresentKeys(m, settingsEntries, i) ==
    IF i > Len(settingsEntries) THEN 0
    ELSE LET sEntry == settingsEntries[i]
         IN  sizeOfSettingsCacheEntry
             + Len(sEntry.SettingsCacheKey.Username)
             + SettingsLen(sEntry.Settings)
             + sizeOfSettings_ChargesPresentKeys(m, settingsEntries, i + 1)

\* The loop of lines 426-436, over the entries from index i on: every entry
\* whose key is not in the map is charged, also one that repeats a key of
\* an earlier entry.
RECURSIVE sizeOfSettings(_, _, _)
sizeOfSettings(m, settingsEntries, i) ==
    IF i > Len(settingsEntries) THEN 0
    ELSE LET sEntry == settingsEntries[i]
         IN  (IF sEntry.SettingsCacheKey \in DOMAIN m
              THEN 0
              ELSE sizeOfSettingsCacheEntry
                   + Len(sEntry.SettingsCacheKey.Username)
                   + SettingsLen(sEntry.Settings))
             + sizeOfSettings(m, settingsEntries, i + 1)

\* The loop of lines 443-448, over the entries from index i on: a key already
\* in the map keeps its value.
RECURSIVE storeSettings(_, _, _)
storeSettings(m, settingsEntries, i) ==
    IF i > Len(settingsEntries) THEN m
    ELSE LET sEntry == settingsEntries[i]
             k == sEntry.SettingsCacheKey
         IN  storeSettings(
                 IF k \in DOMAIN m THEN m
                 ELSE MapPut(m, k, [Settings |-> sEntry.Settings,
                                    readVersion |-> sEntry.readVersion]),
                 settingsEntries, i + 1)

\* Mutant: the write-back that stores the entries although Grow failed.
maybeWriteDefaultSettingsBackToCache_StoreWithoutMemory(c, dbRoleSettingsTableVersion, settingsEntries) ==
    IF c.dbRoleSettingsTableVersion # dbRoleSettingsTableVersion
    THEN [cache |-> c, ok |-> FALSE, stored |-> FALSE, growFailed |-> FALSE]
    ELSE LET g == Grow(c.boundAccount,
                       sizeOfSettings(c.settingsCache, settingsEntries, 1))
         IN  [cache |-> [c EXCEPT
                           !.boundAccount = g.acc,
                           !.settingsCache =
                               storeSettings(@, settingsEntries, 1)],
              ok |-> TRUE, stored |-> TRUE, growFailed |-> ~g.ok]

maybeWriteDefaultSettingsBackToCache(c, dbRoleSettingsTableVersion, settingsEntries) ==
    IF c.dbRoleSettingsTableVersion # dbRoleSettingsTableVersion
    THEN [cache |-> c, ok |-> FALSE, stored |-> FALSE, growFailed |-> FALSE]
    ELSE LET g == Grow(c.boundAccount,
                       sizeOfSettings(c.settingsCache, settingsEntries, 1))
         IN  IF ~g.ok
             THEN [cache |-> c, ok |-> TRUE, stored |-> FALSE, growFailed |-> TRUE]
             ELSE [cache |-> [c EXCEPT
                                !.boundAccount = g.acc,
                                !.settingsCache =
                                    storeSettings(@, settingsEntries, 1)],
                   ok |-> TRUE, stored |-> TRUE, growFailed |-> FALSE]

\* fmt.Sprintf("defaultsettings-%s-%d-%d", ...)
DefaultSettingsRequestKey(username, databaseID, dbRoleSettingsTableVersion) ==
    "defaultsettings-" \o username \o "-" \o ToString(databaseID)
        \o "-" \o ToString(dbRoleSettingsTableVersion)

\* ---------------------------------------------------------- singleflight

MapDelete(m, k) == [x \in DOMAIN m \ {k} |-> m[x]]

\* singleflight.Group.DoChan for caller p: join the call of the key if there
\* is one, else register a new call that will run fn.
DoChan(g, key, p, fn) ==
    IF key \in DOMAIN g
    THEN [group |-> [g EXCEPT ![key].chans = @ \cup {p}], shared |-> TRUE]
    ELSE [group |-> MapPut(g, key, [chans |-> {p}, fn |-> fn]),
          shared |-> FALSE]

\* ---------------------------------------------------------------- readers

\* What readFromSystemTables of GetAuthInfo can return for the user and the
\* transaction of the caller that started the load.
readAuthInfoResults(fn) ==
    { [val |-> AuthInfo(h, fn.username, fn.usersTableVersion,
                        fn.roleOptionsTableVersion),
       err |-> NoErr] : h \in HashedPasswords }
    \cup { [val |-> ZeroAuthInfo, err |-> ReaderErr] }

\* What readFromSystemTables of GetDefaultSettings can return: one entry per
\* precedence key, in order.
readDefaultSettingsResults(fn) ==
    LET keys == GenerateSettingsCacheKeys(fn.databaseID, fn.username)
    IN  { [val |-> [i \in 1..Len(keys) |->
                      SettingsCacheEntry(keys[i], s,
                                         fn.dbRoleSettingsTableVersion)],
           err |-> NoErr] : s \in SettingsLists }
        \cup { [val |-> << >>, err |-> ReaderErr] }

ReaderResults(fn) ==
    IF fn.kind = "authinfo"
    THEN readAuthInfoResults(fn)
    ELSE readDefaultSettingsResults(fn)

\* ---------------------------------------------------------------- catalog

Nil == [nil |-> TRUE]

\* descs.Collection.GetImmutableDatabaseByName with DatabaseLookupFlags{}:
\* the descriptor of the database, nil for a name that is no database, or
\* an error.
GetImmutableDatabaseByName(databaseName) ==
    { [dbDesc |-> IF databaseName \in DOMAIN DatabaseDescriptors
                  THEN DatabaseDescriptors[databaseName] ELSE Nil,
       err |-> NoErr],
      [dbDesc |-> Nil, err |-> CatalogErr] }

\* Mutant: a name that is no database gets an ID of its own.
databaseID_NoSentinel(databaseName, dbDesc) ==
    IF dbDesc # Nil THEN dbDesc.ID ELSE 1

\* GetDefaultSettings, lines 307-318: the database ID the call goes on with,
\* given the name and what the lookup of a non-empty name returned.
databaseID(databaseName, dbDesc) ==
    IF databaseName # "" /\ dbDesc # Nil THEN dbDesc.ID ELSE 0

\* ------------------------------------------------------------ the callers

NoArgs ==
    [kind |-> "none", username |-> "", databaseName |-> "", databaseID |-> 0,
     usersTableVersion |-> 0, roleOptionsTableVersion |-> 0,
     dbRoleSettingsTableVersion |-> 0]

AuthInfoArgs(username, uv, rv) ==
    [NoArgs EXCEPT !.kind = "authinfo", !.username = username,
                   !.usersTableVersion = uv, !.roleOptionsTableVersion = rv]

DefaultSettingsArgs(username, databaseName, dbID, dv) ==
    [NoArgs EXCEPT !.kind = "defaultsettings", !.username = username,
                   !.databaseName = databaseName, !.databaseID = dbID,
                   !.dbRoleSettingsTableVersion = dv]

RequestKey(ar) ==
    IF ar.kind = "authinfo"
    THEN AuthInfoRequestKey(ar.username, ar.usersTableVersion,
                            ar.roleOptionsTableVersion)
    ELSE DefaultSettingsRequestKey(ar.username, ar.databaseID,
                                   ar.dbRoleSettingsTableVersion)

\* History of one call: hit: served from the cache; below: it presented a
\* version lower than one the watermark has already had; nPresent: how many
\* of its precedence keys were in settingsCache at the lookup; fetched: what
\* the channel delivered; advanced: see the variable; stored, growFailed:
\* what the write-back did; path: the way the call took through the code
\* ("cache", "disabled", "uncommitted", "catalog error", "cancelled");
\* started: its DoChan started the load it waited for (recorded when track).
NoObs ==
    [hit |-> FALSE, below |-> FALSE, nPresent |-> 0, fetched |-> None,
     advanced |-> FALSE, stored |-> FALSE, growFailed |-> FALSE,
     path |-> "cache", started |-> FALSE]

Max(x, y) == IF x >= y THEN x ELSE y

HiAfter(c) ==
    IF ~track THEN hi ELSE
    [usersTableVersion |-> Max(hi.usersTableVersion, c.usersTableVersion),
     roleOptionsTableVersion |->
         Max(hi.roleOptionsTableVersion, c.roleOptionsTableVersion),
     dbRoleSettingsTableVersion |->
         Max(hi.dbRoleSettingsTableVersion, c.dbRoleSettingsTableVersion)]

\* A watermark that a load of this kind is checked against at its write-back
\* is higher in c2 than in c.
Raised(kind, c, c2) ==
    IF kind = "authinfo"
    THEN \/ c2.usersTableVersion > c.usersTableVersion
         \/ c2.roleOptionsTableVersion > c.roleOptionsTableVersion
    ELSE c2.dbRoleSettingsTableVersion > c.dbRoleSettingsTableVersion

AdvancedAfter(c2) ==
    [k \in DOMAIN advanced |->
        advanced[k] \/ (track /\ Raised(a.populateCacheGroup[k].fn.kind, a, c2))]

InitWith(tracking) ==
    /\ track = tracking
    /\ \E budget \in Budgets : a = NewCache(budget)
    /\ pc = [p \in Procs |-> "idle"]
    /\ args = [p \in Procs |-> NoArgs]
    /\ ch = [p \in Procs |-> None]
    /\ ret = [p \in Procs |-> None]
    /\ obs = [p \in Procs |-> NoObs]
    /\ running = EmptyBag
    /\ advanced = EmptyMap
    /\ hi = [usersTableVersion |-> 0, roleOptionsTableVersion |-> 0,
             dbRoleSettingsTableVersion |-> 0]

Init == InitWith(FALSE)

\* GetAuthInfo up to the lookup (lines 118-159): the caller's transaction
\* sees versions uv and rv of the two tables; readAuthInfoFromCache runs
\* under the mutex; a hit returns.
GetAuthInfoOf(p, usernames, usersVersions, roleOptionsVersions) ==
    /\ pc[p] \in {"idle", "done"}
    /\ \E username \in usernames, uv \in usersVersions, rv \in roleOptionsVersions :
         LET r == readAuthInfoFromCache(a, uv, rv, username)
         IN  /\ a' = r.cache
             /\ args' = [args EXCEPT ![p] = AuthInfoArgs(username, uv, rv)]
             /\ ret' = [ret EXCEPT ![p] = [val |-> r.aInfo, err |-> NoErr]]
             /\ pc' = [pc EXCEPT ![p] = IF r.found THEN "done" ELSE "load"]
             /\ obs' = [obs EXCEPT ![p] =
                          [NoObs EXCEPT
                             !.hit = r.found,
                             !.below = \/ uv < hi.usersTableVersion
                                       \/ rv < hi.roleOptionsTableVersion]]
             /\ advanced' = AdvancedAfter(r.cache)
             /\ hi' = HiAfter(r.cache)
    /\ UNCHANGED <<ch, running, track>>

GetAuthInfo(p) == GetAuthInfoOf(p, Usernames, Versions, Versions)

\* GetDefaultSettings up to the lookup (lines 295-343), for a login among
\* the given usernames and database names: the descriptor lookups succeed,
\* the caller's transaction sees version dv of db_role_settings, the
\* database name resolves to an ID or to 0; readDefaultSettingsFromCache
\* runs under the mutex; a hit returns.
GetDefaultSettingsOf(p, usernames, databaseNames, versions) ==
    /\ pc[p] \in {"idle", "done"}
    /\ \E username \in usernames, databaseName \in databaseNames, dv \in versions :
       \E lookup \in GetImmutableDatabaseByName(databaseName) :
         LET dbID == databaseID(databaseName, lookup.dbDesc)
             r == readDefaultSettingsFromCache(a, dv, username, dbID)
             keys == GenerateSettingsCacheKeys(dbID, username)
         IN  /\ lookup.err = NoErr
             /\ a' = r.cache
             /\ args' = [args EXCEPT ![p] =
                           DefaultSettingsArgs(username, databaseName, dbID, dv)]
             /\ ret' = [ret EXCEPT ![p] = [val |-> r.sEntries, err |-> NoErr]]
             /\ pc' = [pc EXCEPT ![p] = IF r.found THEN "done" ELSE "load"]
             /\ obs' = [obs EXCEPT ![p] =
                          [NoObs EXCEPT
                             !.hit = r.found,
                             !.below = dv < hi.dbRoleSettingsTableVersion,
                             !.nPresent = Cardinality(
                                 {i \in 1..Len(keys) :
                                    keys[i] \in DOMAIN r.cache.settingsCache})]]
             /\ advanced' = AdvancedAfter(r.cache)
             /\ hi' = HiAfter(r.cache)
    /\ UNCHANGED <<ch, running, track>>

GetDefaultSettings(p) ==
    GetDefaultSettingsOf(p, Usernames, DatabaseNames, Versions)

GetDefaultSettingsAnyLogin(p) ==
    GetDefaultSettingsOf(p, AllUsernames, SettingsDatabaseNames, Versions)

\* GetAuthInfo with the cache disabled (lines 118-120): the reader is called
\* without a transaction and its value and error are returned; no table
\* version is looked up.
GetAuthInfoDisabled(p) ==
    /\ pc[p] \in {"idle", "done"}
    /\ \E username \in Usernames :
         LET ar == AuthInfoArgs(username, 0, 0)
         IN  \E res \in readAuthInfoResults(ar) :
               /\ args' = [args EXCEPT ![p] = ar]
               /\ ret' = [ret EXCEPT ![p] = [val |-> res.val, err |-> res.err]]
               /\ obs' = [obs EXCEPT ![p] =
                            [NoObs EXCEPT !.path = "disabled",
                                          !.fetched = [val |-> res.val, err |-> res.err]]]
    /\ pc' = [pc EXCEPT ![p] = "done"]
    /\ UNCHANGED <<a, ch, running, advanced, hi, track>>

\* GetAuthInfo when the lookup of the users or of the role_options
\* descriptor fails (lines 124-141): the error is returned.
GetAuthInfoCatalogErr(p) ==
    /\ pc[p] \in {"idle", "done"}
    /\ \E username \in Usernames :
         args' = [args EXCEPT ![p] = AuthInfoArgs(username, 0, 0)]
    /\ ret' = [ret EXCEPT ![p] = [val |-> ZeroAuthInfo, err |-> CatalogErr]]
    /\ obs' = [obs EXCEPT ![p] = [NoObs EXCEPT !.path = "catalog error"]]
    /\ pc' = [pc EXCEPT ![p] = "done"]
    /\ UNCHANGED <<a, ch, running, advanced, hi, track>>

\* Mutant: the uncommitted path of GetAuthInfo goes through the staleness
\* check of the lookup before it reads.
GetAuthInfoUncommitted_ConsultsStore(p) ==
    /\ pc[p] \in {"idle", "done"}
    /\ \E username \in Usernames, uv \in Versions :
         LET ar == AuthInfoArgs(username, 0, 0)
         IN  \E res \in readAuthInfoResults(ar) :
               /\ a' = readAuthInfoFromCache(a, uv, uv, username).cache
               /\ args' = [args EXCEPT ![p] = ar]
               /\ ret' = [ret EXCEPT ![p] = [val |-> res.val, err |-> res.err]]
               /\ obs' = [obs EXCEPT ![p] =
                            [NoObs EXCEPT !.path = "uncommitted",
                                          !.fetched = [val |-> res.val, err |-> res.err]]]
    /\ pc' = [pc EXCEPT ![p] = "done"]
    /\ UNCHANGED <<ch, running, advanced, hi, track>>

\* GetAuthInfo when the users or the role_options descriptor is an
\* uncommitted version (lines 143-149): the reader is called in the caller's
\* transaction and its value and error are returned.
GetAuthInfoUncommitted(p) ==
    /\ pc[p] \in {"idle", "done"}
    /\ \E username \in Usernames :
         LET ar == AuthInfoArgs(username, 0, 0)
         IN  \E res \in readAuthInfoResults(ar) :
               /\ args' = [args EXCEPT ![p] = ar]
               /\ ret' = [ret EXCEPT ![p] = [val |-> res.val, err |-> res.err]]
               /\ obs' = [obs EXCEPT ![p] =
                            [NoObs EXCEPT !.path = "uncommitted",
                                          !.fetched = [val |-> res.val, err |-> res.err]]]
    /\ pc' = [pc EXCEPT ![p] = "done"]
    /\ UNCHANGED <<a, ch, running, advanced, hi, track>>

\* GetDefaultSettings when a descriptor lookup fails (lines 298-312): the
\* lookup of db_role_settings, or the lookup of a non-empty database name.
GetDefaultSettingsCatalogErr(p, databaseNames) ==
    /\ pc[p] \in {"idle", "done"}
    /\ \E username \in Usernames, databaseName \in databaseNames :
         args' = [args EXCEPT ![p] = DefaultSettingsArgs(username, databaseName, 0, 0)]
    /\ ret' = [ret EXCEPT ![p] = [val |-> << >>, err |-> CatalogErr]]
    /\ obs' = [obs EXCEPT ![p] = [NoObs EXCEPT !.path = "catalog error"]]
    /\ pc' = [pc EXCEPT ![p] = "done"]
    /\ UNCHANGED <<a, ch, running, advanced, hi, track>>

\* Mutant: the direct read of GetDefaultSettings stores what it read.
GetDefaultSettingsDirect_WritesBack(p, databaseNames) ==
    /\ pc[p] \in {"idle", "done"}
    /\ \E username \in Usernames, databaseName \in databaseNames, path \in {"disabled", "uncommitted"} :
       \E lookup \in GetImmutableDatabaseByName(databaseName) :
         LET ar == DefaultSettingsArgs(username, databaseName, databaseID(databaseName, lookup.dbDesc), 0)
         IN  \E res \in readDefaultSettingsResults(ar) :
               /\ lookup.err = NoErr
               /\ a' = [a EXCEPT !.settingsCache = storeSettings(@, res.val, 1)]
               /\ args' = [args EXCEPT ![p] = ar]
               /\ ret' = [ret EXCEPT ![p] = [val |-> res.val, err |-> res.err]]
               /\ obs' = [obs EXCEPT ![p] =
                            [NoObs EXCEPT !.path = path,
                                          !.fetched = [val |-> res.val, err |-> res.err]]]
    /\ pc' = [pc EXCEPT ![p] = "done"]
    /\ UNCHANGED <<ch, running, advanced, hi, track>>

\* GetDefaultSettings when db_role_settings is an uncommitted version or the
\* cache is disabled (lines 325-334): after the descriptor lookups and the
\* resolution of the database name, the reader is called in the caller's
\* transaction and its value and error are returned.
GetDefaultSettingsDirect(p, databaseNames) ==
    /\ pc[p] \in {"idle", "done"}
    /\ \E username \in Usernames, databaseName \in databaseNames, path \in {"disabled", "uncommitted"} :
       \E lookup \in GetImmutableDatabaseByName(databaseName) :
         LET ar == DefaultSettingsArgs(username, databaseName, databaseID(databaseName, lookup.dbDesc), 0)
         IN  \E res \in readDefaultSettingsResults(ar) :
               /\ lookup.err = NoErr
               /\ args' = [args EXCEPT ![p] = ar]
               /\ ret' = [ret EXCEPT ![p] = [val |-> res.val, err |-> res.err]]
               /\ obs' = [obs EXCEPT ![p] =
                            [NoObs EXCEPT !.path = path,
                                          !.fetched = [val |-> res.val, err |-> res.err]]]
    /\ pc' = [pc EXCEPT ![p] = "done"]
    /\ UNCHANGED <<a, ch, running, advanced, hi, track>>

\* Mutant: loadCacheValue that runs the load function for every caller
\* instead of going through DoChan.
loadCacheValue_NoCoalescing(p) ==
    /\ pc[p] = "load"
    /\ LET key == RequestKey(args[p])
       IN  /\ a' = [a EXCEPT !.populateCacheGroup =
                        MapPut(@, key, [chans |-> {p}, fn |-> args[p]])]
           /\ running' = running (+) SetToBag({key})
           /\ advanced' = MapPut(advanced, key, FALSE)
           /\ obs' = [obs EXCEPT ![p].started = track]
    /\ pc' = [pc EXCEPT ![p] = "wait"]
    /\ UNCHANGED <<args, ch, ret, hi, track>>

\* loadCacheValue up to the select (lines 212-221): DoChan either joins the
\* call in flight for the request key or starts the load function.
loadCacheValue(p) ==
    /\ pc[p] = "load"
    /\ LET key == RequestKey(args[p])
           d == DoChan(a.populateCacheGroup, key, p, args[p])
       IN  /\ a' = [a EXCEPT !.populateCacheGroup = d.group]
           /\ running' = IF d.shared THEN running
                         ELSE running (+) SetToBag({key})
           /\ advanced' = IF d.shared THEN advanced
                          ELSE MapPut(advanced, key, FALSE)
           /\ obs' = [obs EXCEPT ![p].started = track /\ ~d.shared]
    /\ pc' = [pc EXCEPT ![p] = "wait"]
    /\ UNCHANGED <<args, ch, ret, hi, track>>

\* Mutant: the goroutine of DoChan writes the value it fetched back to the
\* cache itself.
doCall_WritesBack(key) ==
    /\ key \in DOMAIN a.populateCacheGroup
    /\ BagIn(key, running)
    /\ LET c == a.populateCacheGroup[key]
       IN  \E res \in ReaderResults(c.fn) :
             /\ ch' = [p \in Procs |->
                        IF /\ p \in c.chans
                           /\ pc[p] = "wait"
                           /\ RequestKey(args[p]) = key
                        THEN [val |-> res.val, err |-> res.err,
                              advanced |-> advanced[key]]
                        ELSE ch[p]]
             /\ LET w == IF res.err # NoErr THEN a
                         ELSE IF c.fn.kind = "authinfo"
                         THEN maybeWriteAuthInfoBackToCache(a, c.fn.usersTableVersion, c.fn.roleOptionsTableVersion, res.val, c.fn.username).cache
                         ELSE maybeWriteDefaultSettingsBackToCache(a, c.fn.dbRoleSettingsTableVersion, res.val).cache
                IN  a' = [w EXCEPT !.populateCacheGroup = MapDelete(@, key)]
    /\ running' = running (-) SetToBag({key})
    /\ advanced' = MapDelete(advanced, key)
    /\ UNCHANGED <<pc, args, ret, obs, hi, track>>

\* The goroutine of DoChan finishes: the load function (the reader, in the
\* transaction of the caller that started it) returns, the call leaves the
\* group and every channel of the call gets the one result.  The channels
\* are buffered: what is sent on the channel of a caller that has left its
\* select (its context was done) is never received.
doCall(key) ==
    /\ key \in DOMAIN a.populateCacheGroup
    /\ BagIn(key, running)
    /\ LET c == a.populateCacheGroup[key]
       IN  \E res \in ReaderResults(c.fn) :
             ch' = [p \in Procs |->
                      IF /\ p \in c.chans
                         /\ pc[p] = "wait"
                         /\ RequestKey(args[p]) = key
                      THEN [val |-> res.val, err |-> res.err,
                            advanced |-> advanced[key]]
                      ELSE ch[p]]
    /\ a' = [a EXCEPT !.populateCacheGroup = MapDelete(@, key)]
    /\ running' = running (-) SetToBag({key})
    /\ advanced' = MapDelete(advanced, key)
    /\ UNCHANGED <<pc, args, ret, obs, hi, track>>

\* Mutant: GetAuthInfo that writes back whatever the load delivered and
\* returns it without the error.
GetAuthInfoReturn_IgnoresError(p) ==
    /\ pc[p] = "wait"
    /\ args[p].kind = "authinfo"
    /\ ch[p] # None
    /\ LET res == ch[p]
           w == maybeWriteAuthInfoBackToCache(a, args[p].usersTableVersion, args[p].roleOptionsTableVersion, res.val, args[p].username)
       IN  /\ a' = w.cache
           /\ ret' = [ret EXCEPT ![p] = [val |-> res.val, err |-> NoErr]]
           /\ obs' = [obs EXCEPT ![p].fetched = [val |-> res.val, err |-> res.err],
                                 ![p].advanced = res.advanced,
                                 ![p].stored = w.stored,
                                 ![p].growFailed = w.growFailed]
    /\ pc' = [pc EXCEPT ![p] = "done"]
    /\ ch' = [ch EXCEPT ![p] = None]
    /\ UNCHANGED <<args, running, advanced, hi, track>>

\* GetAuthInfo from the select on (lines 222-230, 170-185): the result of
\* the load arrives; an error is returned, a value is written back under
\* the mutex and returned.
GetAuthInfoReturn(p) ==
    /\ pc[p] = "wait"
    /\ args[p].kind = "authinfo"
    /\ ch[p] # None
    /\ LET res == ch[p]
           w == maybeWriteAuthInfoBackToCache(
                    a, args[p].usersTableVersion,
                    args[p].roleOptionsTableVersion, res.val, args[p].username)
           fetched == [val |-> res.val, err |-> res.err]
       IN  IF res.err # NoErr
           THEN /\ a' = a
                /\ ret' = [ret EXCEPT ![p].err = res.err]
                /\ obs' = [obs EXCEPT ![p].fetched = fetched,
                                      ![p].advanced = res.advanced]
           ELSE /\ a' = w.cache
                /\ ret' = [ret EXCEPT ![p] = [val |-> res.val, err |-> NoErr]]
                /\ obs' = [obs EXCEPT ![p].fetched = fetched,
                                      ![p].advanced = res.advanced,
                                      ![p].stored = w.stored,
                                      ![p].growFailed = w.growFailed]
    /\ pc' = [pc EXCEPT ![p] = "done"]
    /\ ch' = [ch EXCEPT ![p] = None]
    /\ UNCHANGED <<args, running, advanced, hi, track>>

\* GetDefaultSettings from the select on (lines 222-230, 355-369).
GetDefaultSettingsReturn(p) ==
    /\ pc[p] = "wait"
    /\ args[p].kind = "defaultsettings"
    /\ ch[p] # None
    /\ LET res == ch[p]
           w == maybeWriteDefaultSettingsBackToCache(
                    a, args[p].dbRoleSettingsTableVersion, res.val)
           fetched == [val |-> res.val, err |-> res.err]
       IN  IF res.err # NoErr
           THEN /\ a' = a
                /\ ret' = [ret EXCEPT ![p].err = res.err]
                /\ obs' = [obs EXCEPT ![p].fetched = fetched,
                                      ![p].advanced = res.advanced]
           ELSE /\ a' = w.cache
                /\ ret' = [ret EXCEPT ![p] = [val |-> res.val, err |-> NoErr]]
                /\ obs' = [obs EXCEPT ![p].fetched = fetched,
                                      ![p].advanced = res.advanced,
                                      ![p].stored = w.stored,
                                      ![p].growFailed = w.growFailed]
    /\ pc' = [pc EXCEPT ![p] = "done"]
    /\ ch' = [ch EXCEPT ![p] = None]
    /\ UNCHANGED <<args, running, advanced, hi, track>>

\* Mutant: a caller whose context is done takes the load of its key down
\* with it.
loadCacheValueCtxDone_AbortsLoad(p) ==
    /\ pc[p] = "wait"
    /\ LET key == RequestKey(args[p])
       IN  /\ a' = [a EXCEPT !.populateCacheGroup = MapDelete(@, key)]
           /\ running' = [k \in DOMAIN running \ {key} |-> running[k]]
           /\ advanced' = MapDelete(advanced, key)
    /\ ret' = [ret EXCEPT ![p].err = CtxErr]
    /\ obs' = [obs EXCEPT ![p].path = "cancelled"]
    /\ pc' = [pc EXCEPT ![p] = "done"]
    /\ ch' = [ch EXCEPT ![p] = None]
    /\ UNCHANGED <<args, hi, track>>

\* loadCacheValue, the other case of the select (lines 227-229): the
\* context of the caller is done, whether or not a result has arrived; the
\* call returns ctx.Err() and what its named result held after the lookup.
\* The history keeps what the channel held, unreceived, at that moment.
loadCacheValueCtxDone(p) ==
    /\ pc[p] = "wait"
    /\ ret' = [ret EXCEPT ![p].err = CtxErr]
    /\ obs' = [obs EXCEPT ![p].path = "cancelled",
                          ![p].fetched = IF ch[p] = None THEN None ELSE [val |-> ch[p].val, err |-> ch[p].err]]
    /\ pc' = [pc EXCEPT ![p] = "done"]
    /\ ch' = [ch EXCEPT ![p] = None]
    /\ UNCHANGED <<a, args, running, advanced, hi, track>>

Next ==
    \/ \E p \in Procs : GetAuthInfo(p)
    \/ \E p \in Procs : GetDefaultSettings(p)
    \/ \E p \in Procs : loadCacheValue(p)
    \/ \E key \in DOMAIN a.populateCacheGroup : doCall(key)
    \/ \E p \in Procs : GetAuthInfoReturn(p)
    \/ \E p \in Procs : GetDefaultSettingsReturn(p)

Spec == Init /\ [][Next]_vars

\* Callers of GetDefaultSettings only, over all logins.
NextSettings ==
    \/ \E p \in Procs : GetDefaultSettingsAnyLogin(p)
    \/ \E p \in Procs : loadCacheValue(p)
    \/ \E key \in DOMAIN a.populateCacheGroup : doCall(key)
    \/ \E p \in Procs : GetDefaultSettingsReturn(p)

SpecSettings == Init /\ [][NextSettings]_vars

\* Callers of GetAuthInfo only, with the history variables recorded.
InitHistory == InitWith(TRUE)

NextAuthInfo ==
    \/ \E p \in Procs : GetAuthInfo(p)
    \/ \E p \in Procs : loadCacheValue(p)
    \/ \E key \in DOMAIN a.populateCacheGroup : doCall(key)
    \/ \E p \in Procs : GetAuthInfoReturn(p)

SpecAuthInfoHistory == InitHistory /\ [][NextAuthInfo]_vars

\* The same, with both kinds of callers.
SpecHistory == InitHistory /\ [][Next]_vars

\* ------------------------------------------- the mutex, step by step
\* The same calls with a.Lock() and the deferred a.Unlock() as steps of their
\* own, and with the direct reader call as a step that takes time.

\* readAuthInfoFromCache, line 194: a.Lock(), in a call whose transaction
\* sees versions uv and rv.
readAuthInfoFromCacheLock(p) ==
    /\ pc[p] \in {"idle", "done"}
    /\ a.Mutex = Unlocked
    /\ \E username \in Usernames, uv \in Versions, rv \in {1} :
         args' = [args EXCEPT ![p] = AuthInfoArgs(username, uv, rv)]
    /\ a' = [a EXCEPT !.Mutex = p]
    /\ obs' = [obs EXCEPT ![p] = NoObs]
    /\ pc' = [pc EXCEPT ![p] = "readLocked"]
    /\ UNCHANGED <<ch, ret, running, advanced, hi, track>>

\* Mutant: a lookup that misses returns with the mutex still held.
readAuthInfoFromCacheUnlock_HoldsOnMiss(p) ==
    /\ pc[p] = "readLocked"
    /\ args[p].kind = "authinfo"
    /\ LET r == readAuthInfoFromCache(a, args[p].usersTableVersion, args[p].roleOptionsTableVersion, args[p].username)
       IN  /\ a' = [r.cache EXCEPT !.Mutex = IF r.found THEN Unlocked ELSE p]
           /\ ret' = [ret EXCEPT ![p] = [val |-> r.aInfo, err |-> NoErr]]
           /\ pc' = [pc EXCEPT ![p] = IF r.found THEN "done" ELSE "load"]
           /\ obs' = [obs EXCEPT ![p].hit = r.found]
    /\ UNCHANGED <<args, ch, running, advanced, hi, track>>

\* readAuthInfoFromCache, lines 195-203: the body and the deferred Unlock.
readAuthInfoFromCacheUnlock(p) ==
    /\ pc[p] = "readLocked"
    /\ args[p].kind = "authinfo"
    /\ LET r == readAuthInfoFromCache(a, args[p].usersTableVersion, args[p].roleOptionsTableVersion, args[p].username)
       IN  /\ a' = [r.cache EXCEPT !.Mutex = Unlocked]
           /\ ret' = [ret EXCEPT ![p] = [val |-> r.aInfo, err |-> NoErr]]
           /\ pc' = [pc EXCEPT ![p] = IF r.found THEN "done" ELSE "load"]
           /\ obs' = [obs EXCEPT ![p].hit = r.found]
    /\ UNCHANGED <<args, ch, running, advanced, hi, track>>

\* readDefaultSettingsFromCache, line 378: a.Lock().
readDefaultSettingsFromCacheLock(p) ==
    /\ pc[p] \in {"idle", "done"}
    /\ a.Mutex = Unlocked
    /\ \E username \in Usernames, databaseName \in DatabaseNames, dv \in {1} :
         args' = [args EXCEPT ![p] = DefaultSettingsArgs(username, databaseName, databaseID(databaseName, DatabaseDescriptors[databaseName]), dv)]
    /\ a' = [a EXCEPT !.Mutex = p]
    /\ obs' = [obs EXCEPT ![p] = NoObs]
    /\ pc' = [pc EXCEPT ![p] = "readLocked"]
    /\ UNCHANGED <<ch, ret, running, advanced, hi, track>>

\* readDefaultSettingsFromCache, lines 379-404: the body and the deferred
\* Unlock.
readDefaultSettingsFromCacheUnlock(p) ==
    /\ pc[p] = "readLocked"
    /\ args[p].kind = "defaultsettings"
    /\ LET r == readDefaultSettingsFromCache(a, args[p].dbRoleSettingsTableVersion, args[p].username, args[p].databaseID)
       IN  /\ a' = [r.cache EXCEPT !.Mutex = Unlocked]
           /\ ret' = [ret EXCEPT ![p] = [val |-> r.sEntries, err |-> NoErr]]
           /\ pc' = [pc EXCEPT ![p] = IF r.found THEN "done" ELSE "load"]
           /\ obs' = [obs EXCEPT ![p].hit = r.found]
    /\ UNCHANGED <<args, ch, running, advanced, hi, track>>

\* The select of loadCacheValue receives an error (lines 222-225) and the
\* call returns it.
loadCacheValueErr(p) ==
    /\ pc[p] = "wait"
    /\ ch[p] # None
    /\ ch[p].err # NoErr
    /\ \/ GetAuthInfoReturn(p)
       \/ GetDefaultSettingsReturn(p)

\* The select of loadCacheValue receives a value (lines 222-226); the
\* write-back is called and takes the mutex (lines 244, 416).
maybeWriteBackToCacheLock(p) ==
    /\ pc[p] = "wait"
    /\ ch[p] # None
    /\ ch[p].err = NoErr
    /\ a.Mutex = Unlocked
    /\ a' = [a EXCEPT !.Mutex = p]
    /\ pc' = [pc EXCEPT ![p] = "writeLocked"]
    /\ UNCHANGED <<args, ch, ret, obs, running, advanced, hi, track>>

\* maybeWriteAuthInfoBackToCache / maybeWriteDefaultSettingsBackToCache: the
\* body and the deferred Unlock (lines 245-271, 417-450), and the return of
\* the call.
maybeWriteBackToCacheUnlock(p) ==
    /\ pc[p] = "writeLocked"
    /\ LET res == ch[p]
           w == IF args[p].kind = "authinfo"
                THEN maybeWriteAuthInfoBackToCache(a, args[p].usersTableVersion, args[p].roleOptionsTableVersion, res.val, args[p].username)
                ELSE maybeWriteDefaultSettingsBackToCache(a, args[p].dbRoleSettingsTableVersion, res.val)
       IN  /\ a' = [w.cache EXCEPT !.Mutex = Unlocked]
           /\ ret' = [ret EXCEPT ![p] = [val |-> res.val, err |-> NoErr]]
           /\ obs' = [obs EXCEPT ![p].fetched = [val |-> res.val, err |-> res.err],
                                 ![p].stored = w.stored,
                                 ![p].growFailed = w.growFailed]
    /\ pc' = [pc EXCEPT ![p] = "done"]
    /\ ch' = [ch EXCEPT ![p] = None]
    /\ UNCHANGED <<args, running, advanced, hi, track>>

\* GetAuthInfo with the cache disabled or a descriptor uncommitted (lines
\* 118-120, 143-149): the caller's own thread enters the reader ...
readFromSystemTablesCall(p) ==
    /\ pc[p] \in {"idle", "done"}
    /\ \E username \in Usernames, path \in {"disabled", "uncommitted"} :
         /\ args' = [args EXCEPT ![p] = AuthInfoArgs(username, 0, 0)]
         /\ obs' = [obs EXCEPT ![p] = [NoObs EXCEPT !.path = path]]
    /\ pc' = [pc EXCEPT ![p] = "reading"]
    /\ UNCHANGED <<a, ch, ret, running, advanced, hi, track>>

\* ... and the reader returns; the call returns its value and error.
readFromSystemTablesReturn(p) ==
    /\ pc[p] = "reading"
    /\ \E res \in readAuthInfoResults(args[p]) :
         /\ ret' = [ret EXCEPT ![p] = [val |-> res.val, err |-> res.err]]
         /\ obs' = [obs EXCEPT ![p].fetched = [val |-> res.val, err |-> res.err]]
    /\ pc' = [pc EXCEPT ![p] = "done"]
    /\ UNCHANGED <<a, args, ch, running, advanced, hi, track>>

NextLock ==
    \/ \E p \in Procs : readAuthInfoFromCacheLock(p)
    \/ \E p \in Procs : readAuthInfoFromCacheUnlock(p)
    \/ \E p \in Procs : readDefaultSettingsFromCacheLock(p)
    \/ \E p \in Procs : readDefaultSettingsFromCacheUnlock(p)
    \/ \E p \in Procs : loadCacheValue(p)
    \/ \E key \in DOMAIN a.populateCacheGroup : doCall(key)
    \/ \E p \in Procs : loadCacheValueErr(p)
    \/ \E p \in Procs : maybeWriteBackToCacheLock(p)
    \/ \E p \in Procs : maybeWriteBackToCacheUnlock(p)
    \/ \E p \in Procs : readFromSystemTablesCall(p)
    \/ \E p \in Procs : readFromSystemTablesReturn(p)

SpecLock == Init /\ [][NextLock]_vars

\* ------------------------------------------------- calls that must return
\* The calls step by step as above, with the entry of a call and its wait
\* for the mutex as separate steps.

\* GetAuthInfo is called (lines 104-154): the descriptor lookups succeed and
\* the transaction sees versions uv and rv; nothing has been returned yet.
GetAuthInfoCall(p) ==
    /\ pc[p] \in {"idle", "done"}
    /\ \E username \in Usernames, uv \in Versions, rv \in {1} :
         args' = [args EXCEPT ![p] = AuthInfoArgs(username, uv, rv)]
    /\ obs' = [obs EXCEPT ![p] = NoObs]
    /\ ret' = [ret EXCEPT ![p] = None]
    /\ pc' = [pc EXCEPT ![p] = "enter"]
    /\ UNCHANGED <<a, ch, running, advanced, hi, track>>

\* GetDefaultSettings is called (lines 295-339).
GetDefaultSettingsCall(p) ==
    /\ pc[p] \in {"idle", "done"}
    /\ \E username \in Usernames, databaseName \in DatabaseNames, dv \in {1} :
         args' = [args EXCEPT ![p] = DefaultSettingsArgs(username, databaseName, databaseID(databaseName, DatabaseDescriptors[databaseName]), dv)]
    /\ obs' = [obs EXCEPT ![p] = NoObs]
    /\ ret' = [ret EXCEPT ![p] = None]
    /\ pc' = [pc EXCEPT ![p] = "enter"]
    /\ UNCHANGED <<a, ch, running, advanced, hi, track>>

\* Mutant: a lookup that finds the cache not eligible for its versions gives
\* the mutex back and tries again.
readFromCacheLock_WaitsUntilEligible(p) ==
    /\ pc[p] = "enter"
    /\ a.Mutex = Unlocked
    /\ LET eligible == IF args[p].kind = "authinfo"
                       THEN clearCacheIfStale(a, args[p].usersTableVersion, args[p].roleOptionsTableVersion, a.dbRoleSettingsTableVersion).isEligibleForCache
                       ELSE clearCacheIfStale(a, a.usersTableVersion, a.roleOptionsTableVersion, args[p].dbRoleSettingsTableVersion).isEligibleForCache
       IN  /\ a' = [a EXCEPT !.Mutex = IF eligible THEN p ELSE Unlocked]
           /\ pc' = [pc EXCEPT ![p] = IF eligible THEN "readLocked" ELSE "enter"]
           /\ obs' = [obs EXCEPT ![p].nPresent = IF eligible THEN @ ELSE 1 - @]
    /\ UNCHANGED <<args, ch, ret, running, advanced, hi, track>>

\* a.Lock() of the lookup (lines 194, 378): the caller gets the mutex when
\* it is free.
readFromCacheLock(p) ==
    /\ pc[p] = "enter"
    /\ a.Mutex = Unlocked
    /\ a' = [a EXCEPT !.Mutex = p]
    /\ pc' = [pc EXCEPT ![p] = "readLocked"]
    /\ UNCHANGED <<args, ch, ret, obs, running, advanced, hi, track>>

\* The request keys of the calls above.
LiveKeys ==
    { AuthInfoRequestKey(username, uv, 1) : username \in Usernames, uv \in Versions }
    \cup { DefaultSettingsRequestKey(username, DatabaseDescriptors[databaseName].ID, 1) :
              username \in Usernames, databaseName \in DatabaseNames }

\* The steps caller p takes by itself once it has what it waits for.
Proceed(p) ==
    \/ readAuthInfoFromCacheUnlock(p)
    \/ readDefaultSettingsFromCacheUnlock(p)
    \/ loadCacheValue(p)
    \/ loadCacheValueErr(p)
    \/ maybeWriteBackToCacheUnlock(p)

NextLive ==
    \/ \E p \in Procs : GetAuthInfoCall(p)
    \/ \E p \in Procs : GetDefaultSettingsCall(p)
    \/ \E p \in Procs : readFromCacheLock(p)
    \/ \E p \in Procs : readAuthInfoFromCacheUnlock(p)
    \/ \E p \in Procs : readDefaultSettingsFromCacheUnlock(p)
    \/ \E p \in Procs : loadCacheValue(p)
    \/ \E key \in DOMAIN a.populateCacheGroup : doCall(key)
    \/ \E p \in Procs : loadCacheValueErr(p)
    \/ \E p \in Procs : maybeWriteBackToCacheLock(p)
    \/ \E p \in Procs : maybeWriteBackToCacheUnlock(p)

\* Every reader invocation terminates (doCall), the mutex is fair to the
\* callers that wait for it (strong fairness of the two Lock steps), and a
\* caller that can proceed does.  Each of these steps changes running or pc.
Fairness ==
    /\ \A key \in LiveKeys : WF_running(doCall(key))
    /\ \A p \in Procs : SF_pc(readFromCacheLock(p))
    /\ \A p \in Procs : SF_pc(maybeWriteBackToCacheLock(p))
    /\ \A p \in Procs : WF_pc(Proceed(p))

SpecLive == Init /\ [][NextLive]_vars /\ Fairness

\* Callers of both kinds; the usernames of GetAuthInfo look like the tail of
\* a request key.
NextKeys ==
    \/ \E p \in Procs : GetAuthInfoOf(p, KeyUsernames, {1}, Versions)
    \/ \E p \in Procs : GetDefaultSettingsOf(p, Usernames, DatabaseNames, Versions)
    \/ \E p \in Procs : loadCacheValue(p)
    \/ \E key \in DOMAIN a.populateCacheGroup : doCall(key)
    \/ \E p \in Procs : GetAuthInfoReturn(p)
    \/ \E p \in Procs : GetDefaultSettingsReturn(p)

SpecKeys == Init /\ [][NextKeys]_vars

\* Callers of both kinds whose context can be done while they wait for a
\* load, with the history variables recorded.
NextCancel ==
    \/ \E p \in Procs : GetAuthInfoOf(p, Usernames, {1}, {1})
    \/ \E p \in Procs : GetDefaultSettingsOf(p, Usernames, DatabaseNames, {1})
    \/ \E p \in Procs : loadCacheValue(p)
    \/ \E p \in Procs : loadCacheValueCtxDone(p)
    \/ \E key \in DOMAIN a.populateCacheGroup : doCall(key)
    \/ \E p \in Procs : GetAuthInfoReturn(p)
    \/ \E p \in Procs : GetDefaultSettingsReturn(p)

SpecCancel == InitHistory /\ [][NextCancel]_vars

\* Callers of both kinds on every path of the two calls: descriptor lookups
\* that fail, uncommitted descriptors, the cache disabled, database names
\* that are empty or name no database.
NextPaths ==
    \/ \E p \in Procs : GetAuthInfoOf(p, Usernames, {1}, {1})
    \/ \E p \in Procs : GetAuthInfoDisabled(p)
    \/ \E p \in Procs : GetAuthInfoCatalogErr(p)
    \/ \E p \in Procs : GetAuthInfoUncommitted(p)
    \/ \E p \in Procs : GetDefaultSettingsOf(p, Usernames, AllDatabaseNames, {1})
    \/ \E p \in Procs : GetDefaultSettingsCatalogErr(p, AllDatabaseNames)
    \/ \E p \in Procs : GetDefaultSettingsDirect(p, AllDatabaseNames)
    \/ \E p \in Procs : loadCacheValue(p)
    \/ \E key \in DOMAIN a.populateCacheGroup : doCall(key)
    \/ \E p \in Procs : GetAuthInfoReturn(p)
    \/ \E p \in Procs : GetDefaultSettingsReturn(p)

SpecPaths == Init /\ [][NextPaths]_vars

\* Callers of GetAuthInfo one after the other (a call starts when no other
\* call is in progress), in transactions that see version 5 of users and
\* version 3 or 4 of role_options.
NextSequential ==
    \/ \E p \in Procs :
         /\ \A q \in Procs \ {p} : pc[q] \in {"idle", "done"}
         /\ GetAuthInfoOf(p, Usernames, {5}, {3, 4})
    \/ \E p \in Procs : loadCacheValue(p)
    \/ \E key \in DOMAIN a.populateCacheGroup : doCall(key)
    \/ \E p \in Procs : GetAuthInfoReturn(p)

SpecSequential == Init /\ [][NextSequential]_vars

\* ================================================================ claims

IsAuthInfo(p) == args[p].kind = "authinfo"
IsDefaultSettings(p) == args[p].kind = "defaultsettings"
Waiting(p) == pc[p] = "wait" /\ ch[p] = None
Delivered(p) == pc[p] = "wait" /\ ch[p] # None

\* p returned a value that its call fetched through loadCacheValue.
ReturnedFetched(p) ==
    /\ pc[p] = "done"
    /\ ~obs[p].hit
    /\ obs[p].fetched # None
    /\ ret[p].err = NoErr

\* C1: every entry of authInfoCache comes from a reader invoked for the
\* stored (users, roleOptions) watermarks and every entry of settingsCache
\* from a reader invoked for the stored dbRoleSettings watermark; a cache hit
\* returns data read at the versions the caller presented.
C1_EntriesMatchWatermarks ==
    /\ \A u \in DOMAIN a.authInfoCache :
         /\ a.authInfoCache[u].readUser = u
         /\ a.authInfoCache[u].readUsersVersion = a.usersTableVersion
         /\ a.authInfoCache[u].readRoleOptionsVersion = a.roleOptionsTableVersion
    /\ \A k \in DOMAIN a.settingsCache :
         a.settingsCache[k].readVersion = a.dbRoleSettingsTableVersion
    /\ \A p \in Procs :
         (pc[p] = "done" /\ obs[p].hit) =>
            IF IsAuthInfo(p)
            THEN /\ ret[p].val.readUser = args[p].username
                 /\ ret[p].val.readUsersVersion = args[p].usersTableVersion
                 /\ ret[p].val.readRoleOptionsVersion =
                        args[p].roleOptionsTableVersion
            ELSE \A i \in 1..Len(ret[p].val) :
                    ret[p].val[i].readVersion =
                        args[p].dbRoleSettingsTableVersion

\* Both kinds of lookup have been served from the cache.
C1_Witness ==
    \E p, q \in Procs :
        /\ pc[p] = "done" /\ obs[p].hit /\ IsAuthInfo(p)
        /\ pc[q] = "done" /\ obs[q].hit /\ IsDefaultSettings(q)

\* C2: a caller whose coalesced fetch saw a watermark it depends on raised
\* between the start of the fetch and its completion gets the fetched value
\* back, and its write-back does not put the value into the store.
C2_NoInstallAfterAdvance ==
    \A p \in Procs :
        (pc[p] = "done" /\ obs[p].advanced /\ obs[p].fetched.err = NoErr) =>
            /\ ret[p] = obs[p].fetched
            /\ ~obs[p].stored

\* C3, as stated: any two GetAuthInfo calls in progress at the same time
\* with identical username and versions are served by one reader
\* invocation, so the channel of one holds a result exactly when the
\* channel of the other holds the same result.
C3_OneReadForConcurrentCalls ==
    \A p, q \in Procs :
        (/\ pc[p] = "wait" /\ pc[q] = "wait"
         /\ IsAuthInfo(p) /\ args[p] = args[q]) => ch[p] = ch[q]

\* C3, amended: GetAuthInfo calls with identical username and versions that
\* wait in loadCacheValue at the same time are attached to the one load of
\* their request key in flight, its completion hands the same result or the
\* same error to all of them, and each returns what it was handed.
C3_OneReadForCoalescedCalls ==
    [][\A p, q \in Procs :
         /\ (/\ Waiting(p) /\ Waiting(q)
             /\ IsAuthInfo(p) /\ args[p] = args[q]) =>
                /\ CopiesIn(RequestKey(args[p]), running) = 1
                /\ {p, q} \subseteq
                       a.populateCacheGroup[RequestKey(args[p])].chans
                /\ ch'[p] = ch'[q]
         /\ (Delivered(p) /\ IsAuthInfo(p) /\ pc'[p] = "done") =>
                /\ ret'[p].err = ch[p].err
                /\ ch[p].err = NoErr => ret'[p].val = ch[p].val]_vars

\* Two callers have been handed the result of the load they shared.
C3_Witness ==
    \E p, q \in Procs :
        /\ p # q
        /\ Delivered(p) /\ Delivered(q)
        /\ IsAuthInfo(p) /\ args[p] = args[q]
        /\ ch[p] = ch[q]

\* C4: no request key has more than one execution of its load function in
\* flight.
C4_OneLoadPerKey ==
    \A key \in BagToSet(running) : CopiesIn(key, running) = 1

\* Several callers wait on the load of one key while another key is loaded
\* too.
C4_Witness ==
    \E key \in DOMAIN a.populateCacheGroup :
        /\ Cardinality(a.populateCacheGroup[key].chans) > 1
        /\ CopiesIn(key, running) = 1

\* C5: no step lowers a stored watermark.
C5_WatermarksNeverDecrease ==
    [][/\ a'.usersTableVersion >= a.usersTableVersion
       /\ a'.roleOptionsTableVersion >= a.roleOptionsTableVersion
       /\ a'.dbRoleSettingsTableVersion >= a.dbRoleSettingsTableVersion]_vars

\* C6: a lookup that presents a version lower than one the watermark of that
\* table has already had is not served from the cache, and a lookup that
\* presents a version higher than the watermark empties both maps and makes
\* the watermark that version.
C6_MonotonicInvalidation ==
    [][\A p \in Procs :
         /\ obs'[p].below => ~obs'[p].hit
         /\ (pc[p] \in {"idle", "done"} /\ pc'[p] = "load") =>
              /\ (\/ args'[p].usersTableVersion > a.usersTableVersion
                  \/ args'[p].roleOptionsTableVersion > a.roleOptionsTableVersion
                  \/ args'[p].dbRoleSettingsTableVersion >
                         a.dbRoleSettingsTableVersion) =>
                    /\ a'.authInfoCache = EmptyMap
                    /\ a'.settingsCache = EmptyMap
              /\ args'[p].usersTableVersion > a.usersTableVersion =>
                    a'.usersTableVersion = args'[p].usersTableVersion
              /\ args'[p].roleOptionsTableVersion > a.roleOptionsTableVersion =>
                    a'.roleOptionsTableVersion = args'[p].roleOptionsTableVersion
              /\ args'[p].dbRoleSettingsTableVersion >
                     a.dbRoleSettingsTableVersion =>
                    a'.dbRoleSettingsTableVersion =
                        args'[p].dbRoleSettingsTableVersion]_vars

\* The estimated size of the entries of the two maps.
RECURSIVE authInfoCacheSize(_, _)
authInfoCacheSize(m, users) ==
    IF users = {} THEN 0
    ELSE LET u == CHOOSE x \in users : TRUE
         IN  sizeOfEntry(m[u], u) + authInfoCacheSize(m, users \ {u})

RECURSIVE settingsCacheSize(_, _)
settingsCacheSize(m, keys) ==
    IF keys = {} THEN 0
    ELSE LET k == CHOOSE x \in keys : TRUE
         IN  sizeOfSettingsCacheEntry + Len(k.Username)
             + SettingsLen(m[k].Settings)
             + settingsCacheSize(m, keys \ {k})

\* C7: the usage of the bound account is the sum of the estimated sizes of
\* the entries in the two maps.
C7_UsageIsSizeOfEntries ==
    a.boundAccount.used =
        authInfoCacheSize(a.authInfoCache, DOMAIN a.authInfoCache)
        + settingsCacheSize(a.settingsCache, DOMAIN a.settingsCache)

\* The bytes the write-back of caller p asks the account for.
WriteBackSize(p) ==
    IF IsAuthInfo(p)
    THEN sizeOfEntry(ch[p].val, args[p].username)
    ELSE sizeOfSettings(a.settingsCache, ch[p].val, 1)

\* The version recheck of the write-back of caller p passes.
RecheckPasses(p) ==
    IF IsAuthInfo(p)
    THEN /\ a.usersTableVersion = args[p].usersTableVersion
         /\ a.roleOptionsTableVersion = args[p].roleOptionsTableVersion
    ELSE a.dbRoleSettingsTableVersion = args[p].dbRoleSettingsTableVersion

\* C8: a write-back whose Grow fails leaves both maps as they are, and the
\* call returns the fetched value with a nil error.
C8_NoMemoryIsNoError ==
    [][\A p \in Procs :
         (/\ Delivered(p) /\ pc'[p] = "done"
          /\ ch[p].err = NoErr
          /\ RecheckPasses(p)
          /\ a.boundAccount.used + WriteBackSize(p) > a.boundAccount.budget) =>
            /\ a'.authInfoCache = a.authInfoCache
            /\ a'.settingsCache = a.settingsCache
            /\ ret'[p] = [val |-> ch[p].val, err |-> NoErr]]_vars

\* Grow has failed in the write-back of a call, on an account with a budget,
\* and the call has returned the fetched value.
C8_Witness ==
    /\ a.boundAccount.budget > 0
    /\ \E p \in Procs :
        /\ pc[p] = "done" /\ obs[p].growFailed
        /\ ret[p] = obs[p].fetched
        /\ ret[p].err = NoErr

\* C9: with a budget of 0 both maps stay empty, no call is served from the
\* cache, and every call returns what the reader of its own username,
\* database and versions produced.
C9_ZeroBudget ==
    a.boundAccount.budget = 0 =>
        /\ DOMAIN a.authInfoCache = {}
        /\ DOMAIN a.settingsCache = {}
        /\ \A p \in Procs :
             pc[p] = "done" =>
                /\ ~obs[p].hit
                /\ ret[p].err = obs[p].fetched.err
                /\ ret[p].err = NoErr =>
                     /\ ret[p].val = obs[p].fetched.val
                     /\ ret[p].val \in
                          {r.val : r \in {x \in ReaderResults(args[p]) :
                                             x.err = NoErr}}

\* With a budget of 0, calls of both kinds have returned fetched values.
C9_Witness ==
    /\ a.boundAccount.budget = 0
    /\ \E p, q \in Procs :
        /\ ReturnedFetched(p) /\ IsAuthInfo(p)
        /\ ReturnedFetched(q) /\ IsDefaultSettings(q)

\* C10: a lookup of default settings is a hit only if all four precedence
\* keys are in settingsCache, and then returns their four entries; with any
\* key absent it is a miss, the call goes through loadCacheValue and returns
\* the complete result of the reader.
C10_AllOrNothing ==
    \A p \in Procs :
        IsDefaultSettings(p) =>
            LET keys == GenerateSettingsCacheKeys(args[p].databaseID,
                                                  args[p].username)
            IN  /\ obs[p].hit =>
                     /\ obs[p].nPresent = Len(keys)
                     /\ Len(ret[p].val) = Len(keys)
                     /\ \A i \in 1..Len(keys) :
                          ret[p].val[i].SettingsCacheKey = keys[i]
                /\ obs[p].nPresent < Len(keys) =>
                     /\ ~obs[p].hit
                     /\ pc[p] = "done" =>
                          /\ obs[p].fetched # None
                          /\ ret[p].err = obs[p].fetched.err
                          /\ ret[p].err = NoErr =>
                               /\ ret[p].val = obs[p].fetched.val
                               /\ Len(ret[p].val) = Len(keys)

\* A lookup found exactly three of its four keys, and the call returned the
\* four entries of the reader.
C10_Witness ==
    \E p \in Procs :
        /\ IsDefaultSettings(p)
        /\ obs[p].nPresent = 3
        /\ ReturnedFetched(p)
        /\ Len(ret[p].val) = 4

\* The store: everything of the Cache but the singleflight group.
Store(c) == [c EXCEPT !.populateCacheGroup = EmptyMap]

\* Caller p leaves loadCacheValue in this step because its context is done.
CtxDoneStep(p) == pc[p] = "wait" /\ pc'[p] = "done" /\ obs'[p].path = "cancelled"

\* C11: a caller whose context is done while it waits in loadCacheValue
\* gets ctx.Err(); that step changes neither the store nor the group nor the
\* loads in flight nor anything of another caller; every caller that waits
\* has the load of its key in flight, whoever started it and whoever has
\* left, and the completion of a load hands its one result to every caller
\* still waiting for it.
C11_CancellationIsLocal ==
    [][/\ \A p \in Procs :
            CtxDoneStep(p) =>
               /\ ret'[p].err = CtxErr
               /\ a' = a
               /\ running' = running
               /\ \A q \in Procs \ {p} :
                     /\ pc'[q] = pc[q] /\ ch'[q] = ch[q]
                     /\ ret'[q] = ret[q] /\ args'[q] = args[q]
       /\ \A q \in Procs :
            Waiting(q)' =>
               /\ RequestKey(args'[q]) \in DOMAIN a'.populateCacheGroup
               /\ q \in a'.populateCacheGroup[RequestKey(args'[q])].chans
               /\ CopiesIn(RequestKey(args'[q]), running') = 1
       /\ \A q, r \in Procs :
            (/\ Waiting(q) /\ Waiting(r)
             /\ RequestKey(args[q]) = RequestKey(args[r])
             /\ Delivered(q)') =>
                /\ Delivered(r)' /\ ch'[r] = ch'[q]
                /\ ch'[q].err \in {NoErr, ReaderErr}]_vars

\* The caller that started a load has left it with ctx.Err(), and the other
\* caller of the same key has returned the value that load fetched.
C11_Witness ==
    \E p, q \in Procs :
        /\ p # q
        /\ pc[p] = "done" /\ obs[p].path = "cancelled" /\ obs[p].started
        /\ ret[p].err = CtxErr
        /\ RequestKey(args[p]) = RequestKey(args[q])
        /\ ~obs[q].started
        /\ ReturnedFetched(q)

\* Caller p makes a whole call in this step, on the given path: no other
\* caller moves and no load completes.
DirectStep(p, path) ==
    /\ pc[p] \in {"idle", "done"}
    /\ pc'[p] = "done"
    /\ obs'[p].path = path
    /\ ch' = ch
    /\ \A q \in Procs \ {p} :
         /\ pc'[q] = pc[q] /\ args'[q] = args[q]
         /\ ret'[q] = ret[q] /\ obs'[q] = obs[q]

\* What p's call returned, as a reader result.
Returned(p) == [val |-> ret[p].val, err |-> ret[p].err]

\* C12: with the cache disabled, a call of GetAuthInfo or GetDefaultSettings
\* is one direct reader call whose result it returns, and the Cache (maps,
\* watermarks, account, group) and the loads in flight stay as they are.
C12_DisabledReadsDirectly ==
    [][\A p \in Procs :
         DirectStep(p, "disabled") =>
            /\ a' = a
            /\ running' = running
            /\ Returned(p)' \in ReaderResults(args'[p])
            /\ Returned(p)' = obs'[p].fetched]_vars

\* Calls of both kinds have returned values read with the cache disabled
\* while the store holds entries of both kinds.
C12_Witness ==
    /\ DOMAIN a.authInfoCache # {}
    /\ DOMAIN a.settingsCache # {}
    /\ \E p, q \in Procs :
        /\ pc[p] = "done" /\ obs[p].path = "disabled" /\ IsAuthInfo(p)
        /\ pc[q] = "done" /\ obs[q].path = "disabled" /\ IsDefaultSettings(q)
        /\ ret[p].err = NoErr /\ ret[q].err = NoErr

\* C13: a call that finds a relevant descriptor uncommitted returns the
\* result of one direct reader call; the step neither looks into nor changes
\* the maps, the watermarks or the account, and starts or joins no load.
C13_UncommittedReadsDirectly ==
    [][\A p \in Procs :
         DirectStep(p, "uncommitted") =>
            /\ Store(a') = Store(a)
            /\ a'.populateCacheGroup = a.populateCacheGroup
            /\ running' = running
            /\ ~obs'[p].hit
            /\ Returned(p)' \in ReaderResults(args'[p])]_vars

\* Calls of both kinds have returned values read under uncommitted
\* descriptors while the store holds entries of both kinds.
C13_Witness ==
    /\ DOMAIN a.authInfoCache # {}
    /\ DOMAIN a.settingsCache # {}
    /\ \E p, q \in Procs :
        /\ pc[p] = "done" /\ obs[p].path = "uncommitted" /\ IsAuthInfo(p)
        /\ pc[q] = "done" /\ obs[q].path = "uncommitted" /\ IsDefaultSettings(q)
        /\ ret[p].err = NoErr /\ ret[q].err = NoErr

\* C16: a call in which a descriptor lookup fails returns that error, a
\* call whose load or direct read delivers the reader's error returns that
\* error, and in both cases the Cache stays as it is: no write-back, no
\* entry.
C16_ErrorsPassThrough ==
    [][\A p \in Procs :
         /\ DirectStep(p, "catalog error") =>
               /\ ret'[p].err = CatalogErr
               /\ a' = a /\ running' = running
         /\ (Delivered(p) /\ pc'[p] = "done" /\ obs'[p].path = "cache" /\ ch[p].err # NoErr) =>
               /\ ret'[p].err = ch[p].err
               /\ ~obs'[p].stored /\ ~obs'[p].growFailed
               /\ a' = a
         /\ (\E path \in {"disabled", "uncommitted"} : DirectStep(p, path)) =>
               ret'[p].err = obs'[p].fetched.err]_vars

\* One call has returned the error of a descriptor lookup and another the
\* error its coalesced load got from the reader, while the store holds an
\* entry.
C16_Witness ==
    /\ DOMAIN a.authInfoCache # {}
    /\ \E p, q \in Procs :
        /\ pc[p] = "done" /\ obs[p].path = "catalog error"
        /\ ret[p].err = CatalogErr
        /\ pc[q] = "done" /\ obs[q].path = "cache"
        /\ obs[q].fetched # None
        /\ obs[q].fetched.err = ReaderErr /\ ret[q].err = ReaderErr

\* C17: a GetDefaultSettings call whose descriptor lookups do not fail goes
\* on with the ID of the named database, and with ID 0 when the name is
\* empty or names no database: in the arguments of the lookup, in the
\* request key of its load and in the keys of what the reader returns; a
\* call in which a lookup fails returns that error.
C17_UnknownDatabaseIsIDZero ==
    \A p \in Procs :
        (IsDefaultSettings(p) /\ pc[p] # "idle") =>
            IF obs[p].path = "catalog error"
            THEN ret[p].err = CatalogErr
            ELSE /\ args[p].databaseID = (IF args[p].databaseName \in DOMAIN DatabaseDescriptors THEN DatabaseDescriptors[args[p].databaseName].ID ELSE 0)
                 /\ args[p].databaseName \in {"", "nodb"} => args[p].databaseID = 0
                 /\ ret[p].err # CatalogErr
                 /\ pc[p] = "wait" /\ ch[p] = None =>
                       DefaultSettingsRequestKey(args[p].username, args[p].databaseID, args[p].dbRoleSettingsTableVersion) \in DOMAIN a.populateCacheGroup
                 /\ (obs[p].fetched # None /\ obs[p].fetched.err = NoErr) =>
                       LET keys == GenerateSettingsCacheKeys(args[p].databaseID, args[p].username)
                       IN  \A i \in 1..Len(keys) : obs[p].fetched.val[i].SettingsCacheKey = keys[i]

\* A call for a name that is no database has returned what its load fetched
\* for ID 0, and a call with an empty name has been served those entries
\* from the cache.
C17_Witness ==
    \E p, q \in Procs :
        /\ IsDefaultSettings(p) /\ args[p].databaseName = "nodb"
        /\ ReturnedFetched(p) /\ obs[p].stored
        /\ IsDefaultSettings(q) /\ args[q].databaseName = ""
        /\ pc[q] = "done" /\ obs[q].hit /\ ret[q].val = ret[p].val

\* Only caller p moves in this step, and no load completes.
OnlyMoves(p) ==
    /\ ch' = [ch EXCEPT ![p] = ch'[p]]
    /\ \A q \in Procs \ {p} :
         /\ pc'[q] = pc[q] /\ args'[q] = args[q]
         /\ ret'[q] = ret[q] /\ obs'[q] = obs[q]

\* Caller p presents the given versions to the cache lookup in this step.
LooksUp(p, uv, rv) ==
    /\ OnlyMoves(p)
    /\ pc[p] \in {"idle", "done"} /\ pc'[p] \in {"load", "done"}
    /\ args'[p].usersTableVersion = uv
    /\ args'[p].roleOptionsTableVersion = rv

\* C14: with calls made one after the other on a budget that suffices, a
\* GetAuthInfo call presenting (users 5, roleOptions 3) is served the cached
\* value without a reader invocation when the store holds the user at
\* watermarks (5, 3), and misses otherwise; a call presenting roleOptions 4
\* at watermarks (5, 3) misses, empties the map and moves the watermark; a
\* call that misses starts exactly one reader invocation, returns the value
\* it delivers, and caches it when the watermarks are still the versions it
\* presented.
C14_SequentialHitMiss ==
    [][\A p \in Procs :
         a.boundAccount.budget = MaxBudget =>
            /\ LooksUp(p, 5, 3) =>
                  IF /\ a.usersTableVersion = 5 /\ a.roleOptionsTableVersion = 3
                     /\ args'[p].username \in DOMAIN a.authInfoCache
                  THEN /\ pc'[p] = "done"
                       /\ ret'[p] = [val |-> a.authInfoCache[args'[p].username], err |-> NoErr]
                       /\ running' = EmptyBag /\ a' = a
                  ELSE pc'[p] = "load" /\ ~obs'[p].hit
            /\ (LooksUp(p, 5, 4) /\ a.roleOptionsTableVersion = 3) =>
                  /\ pc'[p] = "load" /\ ~obs'[p].hit
                  /\ a'.authInfoCache = EmptyMap
                  /\ a'.usersTableVersion = 5 /\ a'.roleOptionsTableVersion = 4
            /\ (pc[p] = "load" /\ pc'[p] = "wait") =>
                  /\ running = EmptyBag
                  /\ running' = SetToBag({RequestKey(args[p])})
            /\ (/\ Delivered(p) /\ pc'[p] = "done" /\ ch[p].err = NoErr
                /\ a.usersTableVersion = args[p].usersTableVersion
                /\ a.roleOptionsTableVersion = args[p].roleOptionsTableVersion) =>
                  /\ args[p].username \in DOMAIN a'.authInfoCache
                  /\ a'.authInfoCache[args[p].username] = ch[p].val
                  /\ ret'[p] = [val |-> ch[p].val, err |-> NoErr]]_vars

\* After a call at (5, 3) was served from the cache, a call presenting
\* roleOptions 4 has missed and one reader invocation is in flight for it.
C14_Witness ==
    \E p, q \in Procs :
        /\ pc[p] = "done" /\ obs[p].hit /\ ret[p].err = NoErr
        /\ args[p].usersTableVersion = 5 /\ args[p].roleOptionsTableVersion = 3
        /\ ret[p].val.HashedPassword \in HashedPasswords
        /\ pc[q] = "wait" /\ ch[q] = None
        /\ args[q].usersTableVersion = 5 /\ args[q].roleOptionsTableVersion = 4
        /\ a.roleOptionsTableVersion = 4 /\ a.authInfoCache = EmptyMap
        /\ running = SetToBag({RequestKey(args[q])})

\* The keys in descending precedence, written out.
PrecedenceKeys(dbID, username) ==
    << [DatabaseID |-> dbID, Username |-> username],
       [DatabaseID |-> 0, Username |-> username],
       [DatabaseID |-> dbID, Username |-> ""],
       [DatabaseID |-> 0, Username |-> ""] >>

\* C15: for every database ID and username, GenerateSettingsCacheKeys is
\* the four keys (db, user), (0, user), (db, ""), (0, "") in that order, so
\* (7, "bob") gives (7,"bob"), (0,"bob"), (7,""), (0,""); and a call served
\* from settingsCache returns four entries whose keys are in that order.
C15_KeysInPrecedenceOrder ==
    /\ \A dbID \in {0} \cup {DatabaseDescriptors[n].ID : n \in DOMAIN DatabaseDescriptors}, username \in AllUsernames \cup {""} :
          /\ Len(GenerateSettingsCacheKeys(dbID, username)) = 4
          /\ GenerateSettingsCacheKeys(dbID, username) = PrecedenceKeys(dbID, username)
    /\ GenerateSettingsCacheKeys(7, "bob") = << [DatabaseID |-> 7, Username |-> "bob"], [DatabaseID |-> 0, Username |-> "bob"], [DatabaseID |-> 7, Username |-> ""], [DatabaseID |-> 0, Username |-> ""] >>
    /\ \A p \in Procs :
          (IsDefaultSettings(p) /\ pc[p] = "done" /\ obs[p].hit) =>
             /\ Len(ret[p].val) = 4
             /\ \A i \in 1..4 :
                   ret[p].val[i].SettingsCacheKey = PrecedenceKeys(args[p].databaseID, args[p].username)[i]

\* A call for bob on database 7 has been served its four entries from the
\* cache.
C15_Witness ==
    \E p \in Procs :
        /\ IsDefaultSettings(p) /\ pc[p] = "done" /\ obs[p].hit
        /\ args[p].username = "bob" /\ args[p].databaseID = 7
        /\ Len(ret[p].val) = 4
        /\ ret[p].val[1].SettingsCacheKey = [DatabaseID |-> 7, Username |-> "bob"]
        /\ ret[p].val[4].SettingsCacheKey = [DatabaseID |-> 0, Username |-> ""]

\* What the three-way comparison is said to give for cache c and the
\* caller's versions uv, rv, dv.
ThreeWay(c, uv, rv, dv) ==
    LET r == clearCacheIfStale(c, uv, rv, dv)
    IN  IF \/ uv > c.usersTableVersion
           \/ rv > c.roleOptionsTableVersion
           \/ dv > c.dbRoleSettingsTableVersion
        THEN /\ r.isEligibleForCache
             /\ r.cache.usersTableVersion = Max(c.usersTableVersion, uv)
             /\ r.cache.roleOptionsTableVersion = Max(c.roleOptionsTableVersion, rv)
             /\ r.cache.dbRoleSettingsTableVersion = Max(c.dbRoleSettingsTableVersion, dv)
             /\ r.cache.authInfoCache = EmptyMap
             /\ r.cache.settingsCache = EmptyMap
             /\ r.cache.boundAccount.used = 0
        ELSE IF \/ uv < c.usersTableVersion
                \/ rv < c.roleOptionsTableVersion
                \/ dv < c.dbRoleSettingsTableVersion
        THEN ~r.isEligibleForCache /\ r.cache = c
        ELSE r.isEligibleForCache /\ r.cache = c

\* C18: on every reachable Cache and for all versions a lookup can present
\* (GetAuthInfo presents users and roleOptions with the stored
\* dbRoleSettings, GetDefaultSettings the reverse), clearCacheIfStale makes
\* every watermark the maximum of stored and presented, empties both maps
\* and the account and reports eligible when a presented version is higher;
\* else reports not eligible and changes nothing when one is lower; else
\* reports eligible and changes nothing.
C18_ThreeWayComparison ==
    /\ \A uv \in Versions, rv \in Versions :
          ThreeWay(a, uv, rv, a.dbRoleSettingsTableVersion)
    /\ \A dv \in Versions :
          ThreeWay(a, a.usersTableVersion, a.roleOptionsTableVersion, dv)

\* Some watermark differs between the two caches.
WatermarkChanged(c, c2) ==
    \/ c2.usersTableVersion # c.usersTableVersion
    \/ c2.roleOptionsTableVersion # c.roleOptionsTableVersion
    \/ c2.dbRoleSettingsTableVersion # c.dbRoleSettingsTableVersion

\* C19: a step that changes a watermark leaves both maps empty and the
\* usage of the account at zero.
C19_WatermarksAndMapsTogether ==
    [][WatermarkChanged(a, a') =>
          /\ a'.authInfoCache = EmptyMap
          /\ a'.settingsCache = EmptyMap
          /\ a'.boundAccount.used = 0]_vars

\* A caller stored an entry at watermarks that a lookup of the other caller
\* has changed since: both maps are empty and nothing is in use.
C19_Witness ==
    /\ a.authInfoCache = EmptyMap /\ a.settingsCache = EmptyMap
    /\ a.boundAccount.used = 0
    /\ \E p, q \in Procs :
        /\ pc[p] = "done" /\ IsAuthInfo(p) /\ obs[p].stored
        /\ WatermarkChanged(a, [a EXCEPT !.usersTableVersion = args[p].usersTableVersion, !.roleOptionsTableVersion = args[p].roleOptionsTableVersion])
        /\ pc[q] = "load" /\ ~RecheckPasses(p) /\ RecheckPasses(q)

\* Caller p is inside one of the four functions that take the mutex.
InLockedFunction(p) == pc[p] \in {"readLocked", "writeLocked"}

\* A reader is executing: in the goroutine of a coalesced load, or in the
\* thread of a caller on a direct path.
ReaderExecuting == running # EmptyBag \/ \E p \in Procs : pc[p] = "reading"

\* C20: the mutex is held exactly while its holder is inside one of the two
\* lookups or the two write-backs, so never by a caller that is executing
\* the reader itself or that has started or is waiting for a coalesced
\* load; and while a reader executes, a caller that holds the mutex for a
\* lookup can finish it, and with the mutex free a caller can start one.
C20_ReaderOutsideLock ==
    /\ \A p \in Procs : a.Mutex = p <=> InLockedFunction(p)
    /\ \A p \in Procs : pc[p] \in {"reading", "load", "wait"} => a.Mutex # p
    /\ ReaderExecuting =>
          \A q \in Procs :
             /\ (pc[q] = "readLocked" /\ IsAuthInfo(q)) => ENABLED readAuthInfoFromCacheUnlock(q)
             /\ (pc[q] = "readLocked" /\ IsDefaultSettings(q)) => ENABLED readDefaultSettingsFromCacheUnlock(q)
             /\ (pc[q] \in {"idle", "done"} /\ a.Mutex = Unlocked) => ENABLED readAuthInfoFromCacheLock(q)

\* While the load of one caller is executing its reader, the other caller
\* has been served from the cache.
C20_Witness ==
    \E p, q \in Procs :
        /\ pc[p] = "wait" /\ ch[p] = None
        /\ BagIn(RequestKey(args[p]), running)
        /\ pc[q] = "done" /\ obs[q].hit /\ ret[q].err = NoErr
        /\ a.Mutex = Unlocked

\* The part of a call's arguments that the request key is made of.
KeyFields(ar) ==
    IF ar.kind = "authinfo"
    THEN <<ar.kind, ar.username, ar.usersTableVersion, ar.roleOptionsTableVersion>>
    ELSE <<ar.kind, ar.username, ar.databaseID, ar.dbRoleSettingsTableVersion>>

\* The arguments of calls of both kinds over usernames that contain the
\* separator and digits of the key format.
AllKeyArgs ==
    { AuthInfoArgs(u, uv, rv) : u \in AllKeyUsernames, uv \in Versions \cup {11}, rv \in Versions \cup {11} }
    \cup { DefaultSettingsArgs(u, n, databaseID(n, IF n \in DOMAIN DatabaseDescriptors THEN DatabaseDescriptors[n] ELSE Nil), dv) :
              u \in AllKeyUsernames, n \in AllDatabaseNames, dv \in Versions \cup {11} }

RequestKeysDistinct ==
    \A ar1, ar2 \in AllKeyArgs :
        RequestKey(ar1) = RequestKey(ar2) => KeyFields(ar1) = KeyFields(ar2)

\* The value v that a load delivered was read by a reader invocation for
\* the kind, username, database ID and versions of the arguments ar.
ReadFor(v, ar) ==
    IF ar.kind = "authinfo"
    THEN /\ v.readUser = ar.username
         /\ v.readUsersVersion = ar.usersTableVersion
         /\ v.readRoleOptionsVersion = ar.roleOptionsTableVersion
    ELSE /\ Len(v) = 4
         /\ \A i \in 1..Len(v) :
              /\ v[i].SettingsCacheKey = GenerateSettingsCacheKeys(ar.databaseID, ar.username)[i]
              /\ v[i].readVersion = ar.dbRoleSettingsTableVersion

\* C21: two calls whose kind, username, database ID or versions differ
\* never have the same request key; every call in the group was registered
\* with the load function of a call with the waiter's own key fields, and a
\* value a caller receives from its load was read for exactly its own kind,
\* username, database ID and versions.
C21_NoReuseAcrossVersions ==
    /\ RequestKeysDistinct
    /\ \A p, q \in Procs :
          (pc[p] \in {"load", "wait"} /\ pc[q] \in {"load", "wait"} /\ RequestKey(args[p]) = RequestKey(args[q]))
              => KeyFields(args[p]) = KeyFields(args[q])
    /\ \A p \in Procs :
          (pc[p] = "wait" /\ RequestKey(args[p]) \in DOMAIN a.populateCacheGroup /\ p \in a.populateCacheGroup[RequestKey(args[p])].chans)
              => KeyFields(a.populateCacheGroup[RequestKey(args[p])].fn) = KeyFields(args[p])
    /\ \A p \in Procs :
          (Delivered(p) /\ ch[p].err = NoErr) => ReadFor(ch[p].val, args[p])

\* Two callers have received the value of one load for a username with a
\* '-' and a digit in it, at a version above the one the cache started at.
C21_Witness ==
    \E p, q \in Procs :
        /\ p # q
        /\ Delivered(p) /\ Delivered(q)
        /\ ch[p] = ch[q] /\ ch[p].err = NoErr
        /\ IsAuthInfo(p) /\ args[p] = args[q]
        /\ args[p].username = "a-1"
        /\ args[p].roleOptionsTableVersion = MaxVersion
        /\ a.roleOptionsTableVersion = MaxVersion

\* Map m2 holds a key, or a value under a key, that map m does not.
Entered(m, m2) == \E k \in DOMAIN m2 : k \notin DOMAIN m \/ m2[k] # m[k]

\* Map m holds a key that map m2 does not.
Left(m, m2) == \E k \in DOMAIN m : k \notin DOMAIN m2

\* The step is the write-back of caller p: the load delivered a value, the
\* version recheck passes and Grow has room for what it is asked for.
StoringWriteBack(p) ==
    /\ Delivered(p) /\ pc'[p] = "done"
    /\ ch[p].err = NoErr
    /\ RecheckPasses(p)
    /\ a.boundAccount.used + WriteBackSize(p) <= a.boundAccount.budget
    /\ obs'[p].stored

\* The step is the clearing branch of clearCacheIfStale: a watermark is
\* raised and both maps are emptied.
StalenessClear ==
    /\ \/ a'.usersTableVersion > a.usersTableVersion
       \/ a'.roleOptionsTableVersion > a.roleOptionsTableVersion
       \/ a'.dbRoleSettingsTableVersion > a.dbRoleSettingsTableVersion
    /\ a'.authInfoCache = EmptyMap
    /\ a'.settingsCache = EmptyMap

\* C22: an entry enters a map only in the write-back of a call whose
\* recheck passed and whose Grow succeeded, and that step removes nothing;
\* a key leaves a map only in a step that raises a watermark and empties
\* both maps.
C22_EntryLifecycle ==
    [][/\ Entered(a.authInfoCache, a'.authInfoCache) =>
             \E p \in Procs :
                /\ IsAuthInfo(p) /\ StoringWriteBack(p)
                /\ a'.authInfoCache = MapPut(a.authInfoCache, args[p].username, ch[p].val)
                /\ a'.settingsCache = a.settingsCache
       /\ Entered(a.settingsCache, a'.settingsCache) =>
             \E p \in Procs :
                /\ IsDefaultSettings(p) /\ StoringWriteBack(p)
                /\ a'.settingsCache = storeSettings(a.settingsCache, ch[p].val, 1)
                /\ ~Left(a.settingsCache, a'.settingsCache)
                /\ a'.authInfoCache = a.authInfoCache
       /\ (Left(a.authInfoCache, a'.authInfoCache) \/ Left(a.settingsCache, a'.settingsCache)) =>
             StalenessClear]_vars

\* Entries stored by one caller at the lower version have left in a clear,
\* and entries stored by the other caller at the higher version are in the
\* map.
C22_Witness ==
    \E p, q \in Procs :
        /\ pc[q] = "done" /\ IsDefaultSettings(q) /\ obs[q].stored
        /\ args[q].dbRoleSettingsTableVersion < a.dbRoleSettingsTableVersion
        /\ pc[p] = "done" /\ IsDefaultSettings(p) /\ obs[p].stored
        /\ args[p].dbRoleSettingsTableVersion = a.dbRoleSettingsTableVersion
        /\ DOMAIN a.settingsCache # {}
        /\ \A k \in DOMAIN a.settingsCache : a.settingsCache[k].readVersion = a.dbRoleSettingsTableVersion

\* The step is the write-back of a GetDefaultSettings call of caller p whose
\* version recheck passes.
SettingsWriteBack(p) ==
    /\ Delivered(p) /\ pc'[p] = "done"
    /\ IsDefaultSettings(p)
    /\ ch[p].err = NoErr
    /\ RecheckPasses(p)

\* The indices of the entries whose key is not in map m.
AbsentEntries(m, settingsEntries) ==
    {i \in 1..Len(settingsEntries) : settingsEntries[i].SettingsCacheKey \notin DOMAIN m}

\* The estimated size of the entries at the indices I.
RECURSIVE SizeOfEntriesAt(_, _)
SizeOfEntriesAt(settingsEntries, I) ==
    IF I = {} THEN 0
    ELSE LET i == CHOOSE x \in I : TRUE
         IN  sizeOfSettingsCacheEntry
             + Len(settingsEntries[i].SettingsCacheKey.Username)
             + SettingsLen(settingsEntries[i].Settings)
             + SizeOfEntriesAt(settingsEntries, I \ {i})

\* C23: after a settings write-back at an unchanged watermark, the same
\* write-back applied again changes neither settingsCache nor the usage of
\* the account; the write-back keeps every key it finds in the map with its
\* value, asks the account for the size of the entries whose key is not in
\* the map and for nothing when every key is, and adds to the usage exactly
\* that when it stores and nothing when it does not.
C23_SettingsWriteBackIdempotent ==
    [][\A p \in Procs :
         SettingsWriteBack(p) =>
            LET again == maybeWriteDefaultSettingsBackToCache(a', args[p].dbRoleSettingsTableVersion, ch[p].val).cache
                absent == AbsentEntries(a.settingsCache, ch[p].val)
                charge == SizeOfEntriesAt(ch[p].val, absent)
            IN  /\ again.settingsCache = a'.settingsCache
                /\ again.boundAccount = a'.boundAccount
                /\ \A k \in DOMAIN a.settingsCache :
                      k \in DOMAIN a'.settingsCache /\ a'.settingsCache[k] = a.settingsCache[k]
                /\ absent = {} => charge = 0
                /\ a'.boundAccount.used = a.boundAccount.used + (IF obs'[p].stored THEN charge ELSE 0)
                /\ obs'[p].stored <=> a.boundAccount.used + charge <= a.boundAccount.budget]_vars

\* Two callers have written back the entries of one load at an unchanged
\* watermark: the map holds them and the account was charged for them once.
C23_Witness ==
    \E p, q \in Procs :
        /\ p # q
        /\ pc[p] = "done" /\ pc[q] = "done"
        /\ IsDefaultSettings(p) /\ args[p] = args[q]
        /\ obs[p].stored /\ obs[q].stored
        /\ obs[p].fetched = obs[q].fetched
        /\ RecheckPasses(p)
        /\ a.settingsCache = storeSettings(EmptyMap, obs[p].fetched.val, 1)
        /\ a.boundAccount.used = sizeOfSettings(EmptyMap, obs[p].fetched.val, 1)

\* Caller p is inside a call.
InCall(p) == pc[p] \notin {"idle", "done"}

\* Caller p waits for the mutex, which another caller holds.
WaitsForLock(p) ==
    /\ pc[p] = "enter" \/ (Delivered(p) /\ ch[p].err = NoErr)
    /\ a.Mutex \notin {Unlocked, p}

\* Caller p waits for the load of its request key, which it started or
\* joined and whose load function is executing.
WaitsForFetch(p) ==
    /\ Waiting(p)
    /\ RequestKey(args[p]) \in DOMAIN a.populateCacheGroup
    /\ p \in a.populateCacheGroup[RequestKey(args[p])].chans
    /\ BagIn(RequestKey(args[p]), running)

\* The snapshot of caller p is older than a watermark its lookup compares.
StaleSnapshot(p) ==
    IF IsAuthInfo(p)
    THEN \/ args[p].usersTableVersion < a.usersTableVersion
         \/ args[p].roleOptionsTableVersion < a.roleOptionsTableVersion
    ELSE args[p].dbRoleSettingsTableVersion < a.dbRoleSettingsTableVersion

\* C24: with readers that terminate and a fair mutex, every call that has
\* been entered returns; a caller inside a call that cannot take a step is
\* waiting for the mutex another caller holds or for the executing load of
\* its own request key; and a caller whose snapshot is older than the
\* watermark waits for nothing else either.
C24_EveryCallReturns ==
    /\ \A p \in Procs : InCall(p) ~> (pc[p] = "done")
    /\ [](\A p \in Procs :
            InCall(p) =>
               \/ ENABLED (readFromCacheLock(p) \/ maybeWriteBackToCacheLock(p) \/ Proceed(p))
               \/ WaitsForLock(p)
               \/ WaitsForFetch(p))
    /\ [](\A p \in Procs :
            (InCall(p) /\ StaleSnapshot(p)) =>
               \/ ENABLED (readFromCacheLock(p) \/ maybeWriteBackToCacheLock(p) \/ Proceed(p))
               \/ WaitsForLock(p)
               \/ WaitsForFetch(p))

\* A caller whose snapshot is older than the watermark has returned the
\* value of a load, which was not stored.
C24_Witness ==
    \E p \in Procs :
        /\ pc[p] = "done" /\ IsAuthInfo(p)
        /\ StaleSnapshot(p)
        /\ ~obs[p].hit /\ obs[p].fetched # None
        /\ ret[p].err = NoErr /\ ~obs[p].stored

\* C25: with all presented table versions at least 1, whenever a load has
\* delivered a value to a caller and the version recheck of its write-back
\* passes, the maps have been allocated by clearCacheIfStale; maps that are
\* not allocated hold nothing.
C25_NoInsertIntoNilMap ==
    /\ \A p \in Procs :
          (Delivered(p) /\ ch[p].err = NoErr /\ RecheckPasses(p)) => a.mapsMade
    /\ ~a.mapsMade => (a.authInfoCache = EmptyMap /\ a.settingsCache = EmptyMap)

\* The write-backs of a GetAuthInfo call and of a GetDefaultSettings call
\* are both about to pass their recheck and insert into allocated maps
\* that are still empty.
C25_Witness ==
    \E p, q \in Procs :
        /\ Delivered(p) /\ ch[p].err = NoErr /\ RecheckPasses(p) /\ IsAuthInfo(p)
        /\ Delivered(q) /\ ch[q].err = NoErr /\ RecheckPasses(q) /\ IsDefaultSettings(q)
        /\ a.mapsMade
        /\ a.authInfoCache = EmptyMap /\ a.settingsCache = EmptyMap

\* The load of the request key completes in this step.
Completes(key) == BagIn(key, running) /\ ~BagIn(key, running')

\* Caller p is waiting in the select of loadCacheValue for the load of key.
LiveWaiter(p, key) ==
    /\ pc[p] = "wait"
    /\ RequestKey(args[p]) = key
    /\ key \in DOMAIN a.populateCacheGroup
    /\ p \in a.populateCacheGroup[key].chans

\* The context of caller p was done before anything arrived on its channel.
CancelledBeforeResult(p) ==
    pc[p] = "done" /\ obs[p].path = "cancelled" /\ obs[p].fetched = None

\* C26: an entry enters a map only in the step in which a caller returns
\* from loadCacheValue with a value; the step in which a load completes
\* leaves the store as it is; a load that completes after every caller
\* waiting for it has left delivers to nobody and leaves the group, so
\* nothing of it is installed; and a caller that finds no call of its key
\* in the group has the load function run again.
C26_OnlyReturningCallersWrite ==
    [][/\ (Entered(a.authInfoCache, a'.authInfoCache) \/ Entered(a.settingsCache, a'.settingsCache)) =>
             \E p \in Procs :
                /\ Delivered(p) /\ ch[p].err = NoErr
                /\ pc'[p] = "done"
                /\ ret'[p] = [val |-> ch[p].val, err |-> NoErr]
       /\ \A key \in DOMAIN a.populateCacheGroup :
             Completes(key) =>
                /\ Store(a') = Store(a)
                /\ key \notin DOMAIN a'.populateCacheGroup
                /\ (\A p \in Procs : ~LiveWaiter(p, key)) => ch' = ch
       /\ \A p \in Procs :
             (pc[p] = "load" /\ pc'[p] = "wait" /\ RequestKey(args[p]) \notin DOMAIN a.populateCacheGroup) =>
                /\ CopiesIn(RequestKey(args[p]), running') = CopiesIn(RequestKey(args[p]), running) + 1
                /\ a'.populateCacheGroup[RequestKey(args[p])].fn = args[p]
                /\ obs'[p].started]_vars

\* Both callers of one key left before anything arrived, the load has
\* completed, and the entry it fetched is not in the map although the
\* watermarks match and the account has room.
C26_Witness ==
    \E p, q \in Procs :
        /\ p # q
        /\ IsAuthInfo(p) /\ args[p] = args[q]
        /\ CancelledBeforeResult(p) /\ obs[p].started
        /\ CancelledBeforeResult(q) /\ ~obs[q].started
        /\ running = EmptyBag
        /\ a.populateCacheGroup = EmptyMap
        /\ RecheckPasses(p)
        /\ a.boundAccount.budget = MaxBudget
        /\ a.authInfoCache = EmptyMap

====
